---- MODULE Spec2Model ----
(***************************************************************************)
(* A model of one hand ("deal") of the Texas Hold'em engine of             *)
(* rules/game_flow.py: PokerGame, Player, PlayerHand and Deal.             *)
(*                                                                         *)
(* Seats are the list indices 0 .. n-1 of Deal.players.  The cards are     *)
(* abstracted: community_cards is the length of the list of community      *)
(* cards and overall_score[p] is the score of the ranking that             *)
(* HandRanking computes for seat p from the cards showing.                 *)
(***************************************************************************)
EXTENDS Integers, Sequences, FiniteSets, TLC

(***************************************************************************)
(* Bounds of the model.                                                    *)
(***************************************************************************)
MaxPlayers == 2
MaxScore == 1
\* The send_request coroutines of a client, and the polls of a coroutine that
\* are followed while other coroutines run.
MaxRequests == 2
MaxWait == 2
\* The packets that are sent on a connection.
MaxPackets == 2

\* The stacks a player may hold when the hand is created (all positive:
\* new_deal removes the players without money).
Stacks == {35, 150}
\* The small blinds a game may be configured with.
SBAmounts == {10}
\* The amounts a Bet/Raise may ask for.
RaiseAmounts == {40, 100, 1000}

(***************************************************************************)
(* Constants of the program.                                               *)
(***************************************************************************)
FOLD == 0
CALL == 1
RAISE == 2
ActionTypes == {FOLD, CALL, RAISE}

SUCCESS == 0
LESS_THAN_MIN_BET == 1
LESS_THAN_MIN_RAISE == 2
ROUND_ALREADY_ENDED == 3
DEAL_ALREADY_ENDED == 4

ANY_ACTION == 0
DEAL_START == 1
ROUND_FINISH == 2
NEW_ROUND == 3
SKIP_ROUND == 4
DEAL_END == 5

\* What PokerGame.new_deal returns: True, False; RAISED stands for an
\* exception leaving the call.
NEW_DEAL_STARTED == 1
NEW_DEAL_NOT_STARTED == 0
RAISED == -1

\* PokerGame.__init__: self.sb_amount = 25
DefaultSB == 25
\* PokerGame.auto_start_game: Player(self, name, 1000)
StartingChips == 1000

VARIABLES
    \* PokerGame
    dealer,           \* game.dealer
    sb_amount,        \* game.sb_amount
    min_bet,          \* game.min_bet
    players,          \* game.players: the seats (of the table below) of its players;
                      \* in a room, its HandlerPlayers
    has_deal,         \* game.deal is not None
    deal,             \* game.deal: the Deal with its PlayerHands and their Players
    \* the caller's position and what the last operation returned and sent
    started,          \* start_deal has been called
    start_money,      \* the stacks when the hand was created
    last,             \* the last operation on the game, its arguments and its result
    events,           \* the events the last operation broadcast, in order
    \* ServerGameRoom, its HandlerPlayers and the ClientHandlers
    room,
    \* the cards of a hand of the server and the packets that carry them
    table,
    \* the MultiplayerGame of a client and the game_event_queue of its ClientComms
    replica,
    \* the requests of a client: ClientComms, its send_request coroutines, and
    \* the server's end of the connection
    comms,
    \* a HandRanking: its cards and its ranking_type
    hand_ranking,
    \* a connection: the packets sent on it, the bytes not yet read, and what
    \* the receive_packet calls of the other end returned
    stream,
    \* the ClientHandler threads of a room that has no game in progress: the
    \* players list, the player numbers, and where each thread is in join
    \* or leave
    handlers

(***************************************************************************)
(* The hand is one record, so that an operation is a function from hands   *)
(* to hands and start_deal can apply action twice.  Its fields:            *)
(***************************************************************************)
\* Player / PlayerHand, one entry per seat
money == deal.money                     \* player_data.money
bet == deal.bet                         \* PlayerHand.bet_amount: chips committed in the round
folded == deal.folded
called == deal.called
all_in == deal.all_in
last_action == deal.last_action
overall_score == deal.overall_score     \* hand_ranking.overall_score
\* Deal
pot == deal.pot
bet_amount == deal.bet_amount           \* the bet-to-call
current_turn == deal.current_turn
blinds == deal.blinds
round_finished == deal.round_finished
winners == deal.winners                 \* the set of seats of Deal.winners
community_cards == deal.community_cards \* len(Deal.community_cards)

\* The parts of the program that are followed on their own, apart from the
\* bets of the hand and the seats of the room.
sideVars == <<table, replica, comms, hand_ranking, stream, handlers>>
gameVars == <<dealer, sb_amount, min_bet, players, has_deal, room, sideVars>>
dealVars == <<deal>>
engineVars == <<dealer, sb_amount, min_bet, players, has_deal, deal, started,
                start_money, last, events, room>>
vars == <<engineVars, sideVars>>

\* No part of the program is followed on its own.
NoSide ==
    table = <<>> /\ replica = <<>> /\ comms = <<>> /\ hand_ranking = <<>> /\ stream = <<>> /\ handlers = <<>>

Hand == deal

(***************************************************************************)
(* The room is one record.  A HandlerPlayer is named by the client that    *)
(* joined with it.  Its fields:                                            *)
(***************************************************************************)
game_in_progress == room.game_in_progress
joining_queue == room.joining_queue     \* sequence of HandlerPlayers
spectators == room.spectators           \* sequence of HandlerPlayers
client == room.client                   \* the HandlerPlayers whose client is not None
leave_next_hand == room.leave_next_hand \* the HandlerPlayers flagged leave_next_hand
player_number == room.player_number     \* HandlerPlayer.player_number
current_room == room.current_room       \* the clients whose current_room is the room
timers == room.timers                   \* the HandlerPlayers with a pending fold timer
packets == room.packets                 \* <<HandlerPlayer, code>>: the GAME_EVENT packets
                                        \* the last operation sent to the player's client

SetHand(h) == deal' = h

Seats(h) == DOMAIN h.money
NumPlayers(h) == Cardinality(Seats(h))
NotFolded(h) == {p \in Seats(h) : ~h.folded[p]}

RECURSIVE SumOver(_, _)
SumOver(f, S) ==
    IF S = {} THEN 0
    ELSE LET x == CHOOSE y \in S : TRUE IN f[x] + SumOver(f, S \ {x})

\* players[i] with Python's indexing: a negative index counts from the end.
Index(h, i) == IF i < 0 THEN i + NumPlayers(h) ELSE i

GameEvent(code, prev_player, next_player, message, amount) ==
    [code |-> code, prev_player |-> prev_player, next_player |-> next_player,
     message |-> message, bet_amount |-> amount]

(***************************************************************************)
(* Deal.get_next_turn and Deal.__get_next_turn                             *)
(***************************************************************************)
RECURSIVE get_next_turn_rec(_, _, _)
get_next_turn_rec(h, n, turn) ==
    IF h.folded[turn] \/ h.all_in[turn]
    THEN get_next_turn_rec(h, n, (turn + 1) % NumPlayers(h))
    ELSE IF n <= 0
         THEN turn
         ELSE get_next_turn_rec(h, n - 1, (turn + 1) % NumPlayers(h))

\* get_next_turn staying on the seat as soon as any player left is all-in.
get_next_turn_AnyAllInStays(h, n, turn_arg) ==
    LET turn == IF turn_arg < 0 THEN h.current_turn ELSE turn_arg
    IN  IF \/ Cardinality(NotFolded(h)) <= 1
           \/ \E p \in NotFolded(h) : h.all_in[p]
        THEN turn
        ELSE get_next_turn_rec(h, n - 1, (turn + 1) % NumPlayers(h))

get_next_turn(h, n, turn_arg) ==
    LET turn == IF turn_arg < 0 THEN h.current_turn ELSE turn_arg
    IN  IF \/ Cardinality(NotFolded(h)) <= 1
           \/ \A p \in NotFolded(h) : h.all_in[p]
        THEN turn
        ELSE get_next_turn_rec(h, n - 1, (turn + 1) % NumPlayers(h))

(***************************************************************************)
(* PlayerHand.bet                                                          *)
(***************************************************************************)
\* PlayerHand.bet adding the amount asked for, not the amount paid, to the pot.
PlayerBet_PotGetsAmountAsked(h, p, new_bet, is_blinds) ==
    LET to_pay == new_bet - h.bet[p]
        goes_all_in == to_pay >= h.money[p]
        amount_to_pay == IF goes_all_in THEN h.money[p] ELSE to_pay
        final_bet == IF goes_all_in THEN amount_to_pay + h.bet[p] ELSE new_bet
        now_all_in == goes_all_in \/ h.all_in[p]
    IN  [h EXCEPT !.all_in[p] = now_all_in,
                  !.money[p] = @ - amount_to_pay,
                  !.pot = @ + to_pay,
                  !.bet[p] = final_bet,
                  !.last_action[p] = IF is_blinds /\ ~now_all_in THEN "bet" ELSE @,
                  !.called[p] = IF is_blinds THEN @ ELSE TRUE]

\* PlayerHand.bet marking the player as having called also when posting a blind.
PlayerBet_BlindsCountAsCalled(h, p, new_bet, is_blinds) ==
    LET to_pay == new_bet - h.bet[p]
        goes_all_in == to_pay >= h.money[p]
        amount_to_pay == IF goes_all_in THEN h.money[p] ELSE to_pay
        final_bet == IF goes_all_in THEN amount_to_pay + h.bet[p] ELSE new_bet
        now_all_in == goes_all_in \/ h.all_in[p]
    IN  [h EXCEPT !.all_in[p] = now_all_in,
                  !.money[p] = @ - amount_to_pay,
                  !.pot = @ + amount_to_pay,
                  !.bet[p] = final_bet,
                  !.last_action[p] = IF is_blinds /\ ~now_all_in THEN "bet" ELSE @,
                  !.called[p] = TRUE]

\* PlayerHand.bet flagging the player all-in only when the amount to pay
\* exceeds the stack.
PlayerBet_AllInOnlyWhenShort(h, p, new_bet, is_blinds) ==
    LET to_pay == new_bet - h.bet[p]
        goes_all_in == to_pay > h.money[p]
        amount_to_pay == IF to_pay >= h.money[p] THEN h.money[p] ELSE to_pay
        final_bet == IF to_pay >= h.money[p] THEN amount_to_pay + h.bet[p] ELSE new_bet
        now_all_in == goes_all_in \/ h.all_in[p]
    IN  [h EXCEPT !.all_in[p] = now_all_in,
                  !.money[p] = @ - amount_to_pay,
                  !.pot = @ + amount_to_pay,
                  !.bet[p] = final_bet,
                  !.last_action[p] = IF is_blinds /\ ~now_all_in THEN "bet" ELSE @,
                  !.called[p] = IF is_blinds THEN @ ELSE TRUE]

PlayerBet(h, p, new_bet, is_blinds) ==
    LET to_pay == new_bet - h.bet[p]
        goes_all_in == to_pay >= h.money[p]
        amount_to_pay == IF goes_all_in THEN h.money[p] ELSE to_pay
        final_bet == IF goes_all_in THEN amount_to_pay + h.bet[p] ELSE new_bet
        now_all_in == goes_all_in \/ h.all_in[p]
    IN  [h EXCEPT !.all_in[p] = now_all_in,
                  !.money[p] = @ - amount_to_pay,
                  !.pot = @ + amount_to_pay,
                  !.bet[p] = final_bet,
                  !.last_action[p] = IF is_blinds /\ ~now_all_in THEN "bet" ELSE @,
                  !.called[p] = IF is_blinds THEN @ ELSE TRUE]

(***************************************************************************)
(* Deal.showdown: returns the hand; the DEAL_END event is added by the     *)
(* callers.                                                                *)
(***************************************************************************)
\* showdown crediting every winner the whole pot.
showdown_EachWinnerWholePot(h) ==
    LET not_folded == NotFolded(h)
        max_score == CHOOSE m \in {h.overall_score[p] : p \in not_folded} :
                        \A q \in not_folded : h.overall_score[q] <= m
        ws == {p \in not_folded : h.overall_score[p] = max_score}
    IN  [h EXCEPT !.winners = ws,
                  !.money = [p \in Seats(h) |->
                                IF p \in ws THEN h.money[p] + h.pot ELSE h.money[p]]]

\* showdown ranking the folded players with the others.
showdown_IncludesFolded(h) ==
    LET max_score == CHOOSE m \in {h.overall_score[p] : p \in Seats(h)} :
                        \A q \in Seats(h) : h.overall_score[q] <= m
        ws == {p \in Seats(h) : h.overall_score[p] = max_score}
        share == h.pot \div Cardinality(ws)
    IN  [h EXCEPT !.winners = ws,
                  !.money = [p \in Seats(h) |->
                                IF p \in ws THEN h.money[p] + share ELSE h.money[p]]]

showdown(h) ==
    LET not_folded == NotFolded(h)
        max_score == CHOOSE m \in {h.overall_score[p] : p \in not_folded} :
                        \A q \in not_folded : h.overall_score[q] <= m
        ws == {p \in not_folded : h.overall_score[p] = max_score}
        share == h.pot \div Cardinality(ws)
    IN  [h EXCEPT !.winners = ws,
                  !.money = [p \in Seats(h) |->
                                IF p \in ws THEN h.money[p] + share ELSE h.money[p]]]

ShowdownEvent == GameEvent(DEAL_END, -1, -1, "", 0)

(***************************************************************************)
(* Deal.action: the hand after the action, the code it returns and the     *)
(* events it broadcasts.                                                   *)
(***************************************************************************)
Rejected(h, code) == [hand |-> h, result |-> code, events |-> <<>>]

AllCalledOrAllIn(h) == \A p \in NotFolded(h) : h.called[p] \/ h.all_in[p]

\* The end of Deal.action finishing the round on the called flags alone.
AfterAction_IgnoresAllIn(h, p, broadcast, pre_events) ==
    LET message == IF h.all_in[p] THEN "all-in" ELSE broadcast.message
        h1 == [h EXCEPT !.last_action[p] = message]
        finished == \A q \in NotFolded(h1) : h1.called[q]
        h2 == IF finished
              THEN [h1 EXCEPT !.round_finished = TRUE]
              ELSE [h1 EXCEPT !.current_turn = get_next_turn(h1, 1, -1)]
        sent == [broadcast EXCEPT
                    !.message = message,
                    !.code = IF finished THEN ROUND_FINISH ELSE @,
                    !.next_player = IF finished THEN -1 ELSE @]
    IN  [hand |-> h2, result |-> SUCCESS, events |-> Append(pre_events, sent)]

\* The end of Deal.action, after the match statement.
AfterAction(h, p, broadcast, pre_events) ==
    LET message == IF h.all_in[p] THEN "all-in" ELSE broadcast.message
        h1 == [h EXCEPT !.last_action[p] = message]
        finished == AllCalledOrAllIn(h1)
        h2 == IF finished
              THEN [h1 EXCEPT !.round_finished = TRUE]
              ELSE [h1 EXCEPT !.current_turn = get_next_turn(h1, 1, -1)]
        sent == [broadcast EXCEPT
                    !.message = message,
                    !.code = IF finished THEN ROUND_FINISH ELSE @,
                    !.next_player = IF finished THEN -1 ELSE @]
    IN  [hand |-> h2, result |-> SUCCESS, events |-> Append(pre_events, sent)]

\* The Fold case never resolving the hand.
ActionFold_NoShowdown(h, p, broadcast) ==
    LET h1 == [h EXCEPT !.folded[p] = TRUE]
        b == [broadcast EXCEPT !.message = "fold", !.bet_amount = h.bet[p]]
    IN  AfterAction(h1, p, b, <<>>)

ActionFold(h, p, broadcast) ==
    LET h1 == [h EXCEPT !.folded[p] = TRUE]
        one_left == Cardinality(NotFolded(h1)) = 1
        h2 == IF one_left THEN showdown(h1) ELSE h1
        b == [broadcast EXCEPT !.message = "fold",
                               !.bet_amount = h.bet[p],
                               !.code = IF one_left THEN DEAL_END ELSE @]
    IN  AfterAction(h2, p, b, IF one_left THEN <<ShowdownEvent>> ELSE <<>>)

ActionCall(h, p, broadcast) ==
    LET h1 == PlayerBet(h, p, h.bet_amount, FALSE)
        h2 == [h1 EXCEPT !.called[p] = TRUE]
        b == [broadcast EXCEPT
                !.message = IF h.bet_amount > 0 THEN "call" ELSE "check",
                !.bet_amount = h.bet_amount]
    IN  AfterAction(h2, p, b, <<>>)

\* The Bet/Raise case clearing the called flags before it checks the size.
ActionRaise_ClearsBeforeCheck(h, p, broadcast, new_amount, is_blinds) ==
    LET h0 == [h EXCEPT !.called = [x \in Seats(h) |-> FALSE]]
    IN
    IF ~is_blinds /\ new_amount < 2 * min_bet
    THEN Rejected(h0, LESS_THAN_MIN_BET)
    ELSE IF new_amount <= h.bet_amount
    THEN Rejected(h0, LESS_THAN_MIN_RAISE)
    ELSE
    LET amount == IF new_amount > h.money[p] + h.bet[p]
                  THEN h.money[p] + h.bet[p]
                  ELSE new_amount
        h1 == [h0 EXCEPT !.bet_amount = amount]
        h2 == PlayerBet(h1, p, amount, is_blinds)
        b == [broadcast EXCEPT
                !.message = IF h.bet_amount > 0 /\ ~is_blinds THEN "raise" ELSE "bet",
                !.bet_amount = h2.bet[p]]
    IN  AfterAction(h2, p, b, <<>>)

\* The Bet/Raise case setting the bet-to-call to the amount asked for.
ActionRaise_NoCap(h, p, broadcast, new_amount, is_blinds) ==
    IF ~is_blinds /\ new_amount < 2 * min_bet
    THEN Rejected(h, LESS_THAN_MIN_BET)
    ELSE IF new_amount <= h.bet_amount
    THEN Rejected(h, LESS_THAN_MIN_RAISE)
    ELSE
    LET h1 == [h EXCEPT !.called = [x \in Seats(h) |-> FALSE],
                        !.bet_amount = new_amount]
        h2 == PlayerBet(h1, p, new_amount, is_blinds)
        b == [broadcast EXCEPT
                !.message = IF h.bet_amount > 0 /\ ~is_blinds THEN "raise" ELSE "bet",
                !.bet_amount = h2.bet[p]]
    IN  AfterAction(h2, p, b, <<>>)

ActionRaise(h, p, broadcast, new_amount, is_blinds) ==
    IF ~is_blinds /\ new_amount < 2 * min_bet
    THEN Rejected(h, LESS_THAN_MIN_BET)
    ELSE IF new_amount <= h.bet_amount
    THEN Rejected(h, LESS_THAN_MIN_RAISE)
    ELSE
    LET amount == IF new_amount > h.money[p] + h.bet[p]
                  THEN h.money[p] + h.bet[p]
                  ELSE new_amount
        h1 == [h EXCEPT !.called = [x \in Seats(h) |-> FALSE],
                        !.bet_amount = amount]
        h2 == PlayerBet(h1, p, amount, is_blinds)
        b == [broadcast EXCEPT
                !.message = IF h.bet_amount > 0 /\ ~is_blinds THEN "raise" ELSE "bet",
                !.bet_amount = h2.bet[p]]
    IN  AfterAction(h2, p, b, <<>>)

\* Deal.action announcing the player that acts as the next one.
action_NextPlayerIsActor(h, action_type, new_amount, is_blinds) ==
    IF h.round_finished THEN Rejected(h, ROUND_ALREADY_ENDED)
    ELSE IF h.winners # {} THEN Rejected(h, DEAL_ALREADY_ENDED)
    ELSE
    LET p == Index(h, h.current_turn)
        broadcast == GameEvent(ANY_ACTION, h.current_turn, h.current_turn, "", 0)
    IN  CASE action_type = FOLD -> ActionFold(h, p, broadcast)
          [] action_type = CALL -> ActionCall(h, p, broadcast)
          [] action_type = RAISE -> ActionRaise(h, p, broadcast, new_amount, is_blinds)

action(h, action_type, new_amount, is_blinds) ==
    IF h.round_finished THEN Rejected(h, ROUND_ALREADY_ENDED)
    ELSE IF h.winners # {} THEN Rejected(h, DEAL_ALREADY_ENDED)
    ELSE
    LET p == Index(h, h.current_turn)
        broadcast == GameEvent(ANY_ACTION, h.current_turn,
                               get_next_turn(h, 1, -1), "", 0)
    IN  CASE action_type = FOLD -> ActionFold(h, p, broadcast)
          [] action_type = CALL -> ActionCall(h, p, broadcast)
          [] action_type = RAISE -> ActionRaise(h, p, broadcast, new_amount, is_blinds)

(***************************************************************************)
(* Deal.start_deal                                                         *)
(***************************************************************************)
\* start_deal posting the big blind as a voluntary bet.
start_deal_BigBlindVoluntary(h) ==
    LET h1 == [h EXCEPT !.current_turn = get_next_turn(h, 1, dealer)]
        h2 == [h1 EXCEPT !.blinds = <<h1.current_turn, get_next_turn(h1, 1, -1)>>]
        r1 == action(h2, RAISE, sb_amount, TRUE)
        r2 == action(r1.hand, RAISE, sb_amount * 2, FALSE)
    IN  [hand |-> r2.hand, events |-> r1.events \o r2.events]

start_deal(h) ==
    LET h1 == [h EXCEPT !.current_turn = get_next_turn(h, 1, dealer)]
        h2 == [h1 EXCEPT !.blinds = <<h1.current_turn, get_next_turn(h1, 1, -1)>>]
        r1 == action(h2, RAISE, sb_amount, TRUE)
        r2 == action(r1.hand, RAISE, sb_amount * 2, TRUE)
    IN  [hand |-> r2.hand, events |-> r1.events \o r2.events]

(***************************************************************************)
(* Deal.next_round.  new_scores are the scores of the players' rankings of *)
(* the complete board (see Scores).                                        *)
(***************************************************************************)
\* next_round dealing one card on the flop too.
next_round_DealsOneCard(h, new_scores) ==
    IF h.winners # {} THEN [hand |-> h, events |-> <<>>]
    ELSE
    LET h1 == [h EXCEPT !.bet_amount = 0,
                        !.current_turn = get_next_turn(h, 1, dealer),
                        !.round_finished = FALSE]
        deals == h1.community_cards < 5
        draw_n_cards == 1
        h2 == IF deals
              THEN [h1 EXCEPT !.community_cards = @ + draw_n_cards]
              ELSE showdown([h1 EXCEPT !.overall_score = new_scores])
        h3 == [h2 EXCEPT
                !.bet = [p \in Seats(h) |-> 0],
                !.last_action = [p \in Seats(h) |->
                                    IF h2.folded[p] THEN "folded"
                                    ELSE IF h2.all_in[p] THEN "all-in" ELSE ""],
                !.called = [p \in Seats(h) |-> FALSE]]
        skip == Cardinality({p \in NotFolded(h3) : ~h3.all_in[p]}) <= 1
        h4 == IF skip THEN [h3 EXCEPT !.round_finished = TRUE] ELSE h3
        ev == IF skip THEN GameEvent(SKIP_ROUND, -1, -1, "", 0)
              ELSE GameEvent(NEW_ROUND, -1, h4.current_turn, "", 0)
    IN  [hand |-> h4,
         events |-> (IF deals THEN <<>> ELSE <<ShowdownEvent>>) \o <<ev>>]

\* next_round skipping the round only when nobody at all can act.
next_round_SkipsWhenNoneCanAct(h, new_scores) ==
    IF h.winners # {} THEN [hand |-> h, events |-> <<>>]
    ELSE
    LET h1 == [h EXCEPT !.bet_amount = 0,
                        !.current_turn = get_next_turn(h, 1, dealer),
                        !.round_finished = FALSE]
        deals == h1.community_cards < 5
        draw_n_cards == IF h1.community_cards = 0 THEN 3 ELSE 1
        h2 == IF deals
              THEN [h1 EXCEPT !.community_cards = @ + draw_n_cards]
              ELSE showdown([h1 EXCEPT !.overall_score = new_scores])
        h3 == [h2 EXCEPT
                !.bet = [p \in Seats(h) |-> 0],
                !.last_action = [p \in Seats(h) |->
                                    IF h2.folded[p] THEN "folded"
                                    ELSE IF h2.all_in[p] THEN "all-in" ELSE ""],
                !.called = [p \in Seats(h) |-> FALSE]]
        skip == Cardinality({p \in NotFolded(h3) : ~h3.all_in[p]}) <= 0
        h4 == IF skip THEN [h3 EXCEPT !.round_finished = TRUE] ELSE h3
        ev == IF skip THEN GameEvent(SKIP_ROUND, -1, -1, "", 0)
              ELSE GameEvent(NEW_ROUND, -1, h4.current_turn, "", 0)
    IN  [hand |-> h4,
         events |-> (IF deals THEN <<>> ELSE <<ShowdownEvent>>) \o <<ev>>]

\* next_round drawing no card.
next_round_DrawsNoCard(h, new_scores) ==
    IF h.winners # {} THEN [hand |-> h, events |-> <<>>]
    ELSE
    LET h1 == [h EXCEPT !.bet_amount = 0,
                        !.current_turn = get_next_turn(h, 1, dealer),
                        !.round_finished = FALSE]
        deals == h1.community_cards < 5
        draw_n_cards == 0
        h2 == IF deals
              THEN [h1 EXCEPT !.community_cards = @ + draw_n_cards]
              ELSE showdown([h1 EXCEPT !.overall_score = new_scores])
        h3 == [h2 EXCEPT
                !.bet = [p \in Seats(h) |-> 0],
                !.last_action = [p \in Seats(h) |->
                                    IF h2.folded[p] THEN "folded"
                                    ELSE IF h2.all_in[p] THEN "all-in" ELSE ""],
                !.called = [p \in Seats(h) |-> FALSE]]
        skip == Cardinality({p \in NotFolded(h3) : ~h3.all_in[p]}) <= 1
        h4 == IF skip THEN [h3 EXCEPT !.round_finished = TRUE] ELSE h3
        ev == IF skip THEN GameEvent(SKIP_ROUND, -1, -1, "", 0)
              ELSE GameEvent(NEW_ROUND, -1, h4.current_turn, "", 0)
    IN  [hand |-> h4,
         events |-> (IF deals THEN <<>> ELSE <<ShowdownEvent>>) \o <<ev>>]

next_round(h, new_scores) ==
    IF h.winners # {} THEN [hand |-> h, events |-> <<>>]
    ELSE
    LET h1 == [h EXCEPT !.bet_amount = 0,
                        !.current_turn = get_next_turn(h, 1, dealer),
                        !.round_finished = FALSE]
        deals == h1.community_cards < 5
        draw_n_cards == IF h1.community_cards = 0 THEN 3 ELSE 1
        h2 == IF deals
              THEN [h1 EXCEPT !.community_cards = @ + draw_n_cards]
              ELSE showdown([h1 EXCEPT !.overall_score = new_scores])
        h3 == [h2 EXCEPT
                !.bet = [p \in Seats(h) |-> 0],
                !.last_action = [p \in Seats(h) |->
                                    IF h2.folded[p] THEN "folded"
                                    ELSE IF h2.all_in[p] THEN "all-in" ELSE ""],
                !.called = [p \in Seats(h) |-> FALSE]]
        skip == Cardinality({p \in NotFolded(h3) : ~h3.all_in[p]}) <= 1
        h4 == IF skip THEN [h3 EXCEPT !.round_finished = TRUE] ELSE h3
        ev == IF skip THEN GameEvent(SKIP_ROUND, -1, -1, "", 0)
              ELSE GameEvent(NEW_ROUND, -1, h4.current_turn, "", 0)
    IN  [hand |-> h4,
         events |-> (IF deals THEN <<>> ELSE <<ShowdownEvent>>) \o <<ev>>]

(***************************************************************************)
(* The state after PokerGame.new_deal has constructed the Deal: between 2  *)
(* and MaxPlayers players, each with a positive stack, any dealer seat.    *)
(***************************************************************************)
NoOp == [op |-> "new_deal", action_type |-> -1, new_amount |-> 0,
         result |-> <<>>]

\* A PokerGame that is not a ServerGameRoom.
NoRoom == <<>>

\* Deal.__init__ and PlayerHand.__init__: the hand of players holding stacks.
DealInit(stacks) ==
    [money |-> stacks,
     bet |-> [p \in DOMAIN stacks |-> 0],
     folded |-> [p \in DOMAIN stacks |-> FALSE],
     called |-> [p \in DOMAIN stacks |-> FALSE],
     all_in |-> [p \in DOMAIN stacks |-> FALSE],
     last_action |-> [p \in DOMAIN stacks |-> ""],
     overall_score |-> [p \in DOMAIN stacks |-> 0],
     pot |-> 0,
     bet_amount |-> 0,
     current_turn |-> -1,
     blinds |-> <<>>,
     round_finished |-> FALSE,
     winners |-> {},
     community_cards |-> 0]

NewDealOf(counts, stack_set, sb_amounts) ==
    \E n \in counts :
        /\ dealer \in 0 .. n - 1
        /\ sb_amount \in sb_amounts
        /\ min_bet = 2 * DefaultSB
        /\ \E stacks \in [0 .. n - 1 -> stack_set] :
            /\ start_money = stacks
            /\ deal = DealInit(stacks)
        /\ players = [i \in 1 .. n |-> i - 1]
        /\ has_deal = TRUE
        /\ started = FALSE
        /\ last = NoOp
        /\ events = <<>>
        /\ room = NoRoom

NewDeal(sb_amounts) == NewDealOf(2 .. MaxPlayers, Stacks, sb_amounts)

\* A PokerGame: the small blind is the one __init__ sets.
Init == NewDeal({DefaultSB}) /\ NoSide

\* A SingleplayerGame: __init__ overwrites sb_amount with its argument.
InitSingleplayer == NewDeal(SBAmounts) /\ NoSide

(***************************************************************************)
(* PokerGame.new_deal.  The Player objects are the rows of the table of    *)
(* the hand record (money[p] is the money of the Player at row p), also    *)
(* while the game has no Deal; players lists the rows that are in          *)
(* game.players.  The result is what the call leaves in players, dealer    *)
(* and deal, and what it returns.                                          *)
(***************************************************************************)
Remaining(h, ps) == SelectSeq(ps, LAMBDA p : h.money[p] > 0)

new_deal(h, ps, d, cycle_dealer) ==
    LET remaining == Remaining(h, ps)
        k == Len(remaining)
    IN  IF cycle_dealer /\ k = 0
        \* (self.dealer + 1) % len(self.players) divides by zero
        THEN [players |-> remaining, dealer |-> d, created |-> FALSE,
              hand |-> h, result |-> RAISED]
        ELSE LET d1 == IF cycle_dealer THEN (d + 1) % k ELSE d
             IN  IF k >= 2
                 THEN [players |-> [i \in 1 .. k |-> i - 1], dealer |-> d1,
                       created |-> TRUE,
                       hand |-> DealInit([i \in 0 .. k - 1 |-> h.money[remaining[i + 1]]]),
                       result |-> NEW_DEAL_STARTED]
                 ELSE [players |-> remaining, dealer |-> d1, created |-> FALSE,
                       hand |-> h, result |-> NEW_DEAL_NOT_STARTED]

\* A PokerGame whose players have been added and that has no Deal yet.  A
\* player may hold nothing.
InitGame ==
    \E n \in 0 .. MaxPlayers :
        /\ dealer = 0
        /\ sb_amount = DefaultSB
        /\ min_bet = 2 * DefaultSB
        /\ \E stacks \in [0 .. n - 1 -> Stacks \cup {0}] :
            /\ start_money = stacks
            /\ deal = DealInit(stacks)
        /\ players = [i \in 1 .. n |-> i - 1]
        /\ has_deal = FALSE
        /\ started = FALSE
        /\ last = [NoOp EXCEPT !.op = "init"]
        /\ events = <<>>
        /\ room = NoRoom
        /\ NoSide

\* A call of new_deal on a game that has no Deal.
NewDealCall(cycle_dealer) ==
    /\ ~has_deal
    /\ LET r == new_deal(Hand, players, dealer, cycle_dealer)
       IN  /\ players' = r.players
           /\ dealer' = r.dealer
           /\ SetHand(r.hand)
           /\ has_deal' = (has_deal \/ r.created)
           /\ started' = IF r.created THEN FALSE ELSE started
           /\ start_money' = IF r.created THEN r.hand.money ELSE start_money
           /\ last' = [NoOp EXCEPT !.result = <<r.result>>]
    /\ events' = <<>>
    /\ UNCHANGED <<sb_amount, min_bet, sideVars, room>>

\* A game of two players who hold the chips auto_start_game gives a player.
InitScenario == NewDealOf({2}, {StartingChips}, {DefaultSB}) /\ NoSide

\* PokerGame.auto_start_game: start_deal is called once, right after new_deal.
StartDeal ==
    /\ has_deal /\ ~started
    /\ LET r == start_deal(Hand)
       IN  /\ SetHand(r.hand)
           /\ events' = r.events
    /\ started' = TRUE
    /\ last' = [NoOp EXCEPT !.op = "start_deal"]
    /\ UNCHANGED <<gameVars, start_money>>

\* What the history keeps of a call of action: the code it returned and,
\* unless the call was turned away at entry, its arguments.
Called(action_type, new_amount, result) ==
    IF result \in {ROUND_ALREADY_ENDED, DEAL_ALREADY_ENDED}
    THEN [NoOp EXCEPT !.op = "action", !.result = <<result>>]
    ELSE [op |-> "action", action_type |-> action_type,
          new_amount |-> new_amount, result |-> <<result>>]

\* A direct call of Deal.action.
DealAction(action_type, new_amount) ==
    /\ started
    /\ LET r == action(Hand, action_type, new_amount, FALSE)
       IN  /\ SetHand(r.hand)
           /\ events' = r.events
           /\ last' = Called(action_type, new_amount, r.result)
    /\ UNCHANGED <<gameVars, started, start_money>>

\* Player.action of the player at seat p, when it is that player's turn and
\* the deal has no winners: the call is passed on to Deal.action.
PlayerAction(p, action_type, new_amount) ==
    /\ started
    /\ Index(Hand, current_turn) = p /\ winners = {}
    /\ LET r == action(Hand, action_type, new_amount, FALSE)
       IN  /\ SetHand(r.hand)
           /\ events' = r.events
           /\ last' = Called(action_type, new_amount, r.result)
    /\ UNCHANGED <<gameVars, started, start_money>>

\* Player.action of the player at seat p otherwise: it returns None (an
\* empty result) without reading its arguments.
PlayerActionRefused(p) ==
    /\ started
    /\ ~(Index(Hand, current_turn) = p /\ winners = {})
    /\ UNCHANGED dealVars
    /\ events' = <<>>
    /\ last' = [NoOp EXCEPT !.op = "action"]
    /\ UNCHANGED <<gameVars, started, start_money>>

\* The scores HandRanking may give the players.  The deck is fixed when the
\* Deal is constructed and a ranking is a function of the deck, so it makes
\* no difference when the outcome of the shuffle is drawn: the model draws
\* the scores of the complete board in the call of next_round that reads
\* them (the one that runs the showdown); the rankings of the flop and the
\* turn are never compared by the engine and are not enumerated.
Scores(h) ==
    IF h.community_cards = 5
    THEN [Seats(h) -> 0 .. MaxScore]
    ELSE {[p \in Seats(h) |-> 0]}

\* next_round is called by the timer a ROUND_FINISH or SKIP_ROUND event
\* starts, and may still be called on a hand that has ended.
NextRound ==
    /\ started
    /\ round_finished \/ winners # {}
    /\ \E new_scores \in Scores(Hand) :
          LET r == next_round(Hand, new_scores)
          IN  /\ SetHand(r.hand)
              /\ events' = r.events
    /\ last' = [NoOp EXCEPT !.op = "next_round"]
    /\ UNCHANGED <<gameVars, started, start_money>>

\* The arguments of an action: new_amount defaults to 0 and is read by
\* Bet/Raise only.
Amounts(action_type) == IF action_type = RAISE THEN RaiseAmounts ELSE {0}

Next ==
    \/ StartDeal
    \/ \E t \in ActionTypes : \E a \in Amounts(t) : DealAction(t, a)
    \/ \E p \in Seats(Hand) : \E t \in ActionTypes : \E a \in Amounts(t) :
          PlayerAction(p, t, a)
    \/ \E p \in Seats(Hand) : PlayerActionRefused(p)
    \/ NextRound

Spec == Init /\ [][Next]_vars

SpecSingleplayer == InitSingleplayer /\ [][Next]_vars

SpecScenario == InitScenario /\ [][Next]_vars

NextGame ==
    \/ \E cycle_dealer \in BOOLEAN : NewDealCall(cycle_dealer)
    \/ Next

SpecGame == InitGame /\ [][NextGame]_vars

\* A PokerGame between two hands: the Deal has ended and any seat of the
\* roster may be the dealer; a hand may have left any player with nothing.
InitRoster ==
    \E n \in 0 .. MaxPlayers + 1 :
        /\ dealer \in (IF n = 0 THEN {0} ELSE 0 .. n - 1)
        /\ sb_amount = DefaultSB
        /\ min_bet = 2 * DefaultSB
        /\ \E stacks \in [0 .. n - 1 -> Stacks \cup {0}] :
            /\ start_money = stacks
            /\ deal = DealInit(stacks)
        /\ players = [i \in 1 .. n |-> i - 1]
        /\ has_deal = FALSE
        /\ started = FALSE
        /\ last = [NoOp EXCEPT !.op = "init"]
        /\ events = <<>>
        /\ room = NoRoom
        /\ NoSide

NextRoster == \E cycle_dealer \in BOOLEAN : NewDealCall(cycle_dealer)

SpecRoster == InitRoster /\ [][NextRoster]_vars

(***************************************************************************)
(* The server's room: ServerGameRoom, HandlerPlayer and the ClientHandlers *)
(* that call join and leave.  In a room players is the list of the         *)
(* HandlerPlayers of game.players; while a hand is played the seat of a    *)
(* player in the hand is its position in that list, which join and leave   *)
(* do not touch while the game is in progress.                             *)
(***************************************************************************)
\* ServerGameRoom.max_players, the capacity of the room: the rooms followed
\* are those of a capacity of MaxPlayers seats.
max_players == MaxPlayers

\* The client connections: two more than the room has seats.
Clients == 1 .. MaxPlayers + 2

\* ClientHandler.name, "Port <port of the peer>": the last two clients come
\* from the same port of two hosts.
name(c) == IF c <= MaxPlayers THEN c - 1 ELSE MaxPlayers

\* The event codes of the room that Deal does not broadcast.
RESET_PLAYERS == 6
JOIN_MID_GAME == 7
NEW_HAND == 8
RESET_HAND == 9

Range(q) == {q[i] : i \in DOMAIN q}

Remove(q, x) == SelectSeq(q, LAMBDA y : y # x)

\* A GameEvent made from its code alone.
RoomEvent(code) == GameEvent(code, -1, -1, "", 0)

\* The non-participating players on_event passes events on to.
NonParticipants(r) == Range(r.spectators) \cup Range(r.joining_queue)

\* A HandlerPlayer has a player_hand once a hand has made a PlayerHand for
\* it.  The players of the joining queue were made by join and have been in
\* no hand: their player_hand is the None of Player.__init__.
HasPlayerHand(r, x) == x \notin Range(r.joining_queue)

\* The sends that raise: NEW_HAND reads self.player_hand.pocket_cards.
Raises(r, x, ev) == ev.code = NEW_HAND /\ ~HasPlayerHand(r, x)

\* send_game_event starting no timer for a player without a client.
send_game_event_NoTimer(r, to, evs) ==
    [r EXCEPT
        !.packets = {<<x, evs[i].code>> : x \in to \cap r.client, i \in DOMAIN evs}]

(***************************************************************************)
(* HandlerPlayer.send_game_event of every player in to, for each of the    *)
(* events evs: a player with a client is sent the event in a packet; a     *)
(* player without one gets a timer that folds for it when the event names  *)
(* it as the next player.  A send that raises sends nothing and ends the   *)
(* loop of the broadcast, which goes over the players of the game, then    *)
(* the spectators, then the joining queue.                                 *)
(***************************************************************************)
send_game_event(r, to, evs) ==
    [r EXCEPT
        !.packets = {pk \in {<<x, evs[i].code>> : x \in to \cap r.client,
                                                  i \in DOMAIN evs} :
                        pk[1] \in Range(r.joining_queue) => pk[2] # NEW_HAND},
        !.error = @ \/ \E x \in to \cap r.client : \E i \in DOMAIN evs :
                           Raises(r, x, evs[i]),
        !.timers = @ \cup {x \in to \ r.client :
                              \E i \in DOMAIN evs :
                                  evs[i].next_player = r.player_number[x]}]

\* A broadcast of the hand or of the game, followed by on_event: the players
\* of the game and the non-participants receive the events.
broadcast(r, ps, evs) == send_game_event(r, Range(ps) \cup NonParticipants(r), evs)

\* The hand player whose turn it is: get_current_player().player_data
CurrentPlayer(h, ps) == ps[Index(h, h.current_turn) + 1]

(***************************************************************************)
(* Player.action(FOLD) of the HandlerPlayer x, with the broadcast of the   *)
(* events of the fold: the hand, the events and the room it leaves.        *)
(***************************************************************************)
PlayerFold(r, ps, h, x) ==
    IF h.winners = {} /\ CurrentPlayer(h, ps) = x
    THEN LET a == action(h, FOLD, 0, FALSE)
         IN  [hand |-> a.hand, events |-> a.events,
              room |-> broadcast(r, ps, a.events)]
    ELSE [hand |-> h, events |-> <<>>, room |-> [r EXCEPT !.packets = {}]]

\* join telling the whole room of a joiner that is put in the queue.
join_BroadcastsQueued(r, ps, h, c) ==
    IF name(c) \in {name(x) : x \in Range(ps) \ r.leave_next_hand}
    THEN [result |-> "name already taken", players |-> ps,
          room |-> [r EXCEPT !.packets = {}]]
    ELSE LET r1 == [r EXCEPT !.client = @ \cup {c},
                             !.current_room = @ \cup {c},
                             !.joined = @ \cup {c}]
         IN  IF r.game_in_progress
             THEN [result |-> "joined", players |-> ps,
                   room |-> broadcast(
                                [r1 EXCEPT !.joining_queue = Append(@, c)], ps,
                                <<RoomEvent(IF h.winners # {} THEN RESET_PLAYERS
                                                              ELSE JOIN_MID_GAME)>>)]
             ELSE [result |-> "joined", players |-> Append(ps, c),
                   room |-> broadcast([r1 EXCEPT !.player_number[c] = Len(ps)],
                                      Append(ps, c), <<RoomEvent(RESET_PLAYERS)>>)]

(***************************************************************************)
(* ServerGameRoom.join of the client c: what it raises or returns, and     *)
(* the room and the players it leaves.                                     *)
(***************************************************************************)
join(r, ps, h, c) ==
    IF name(c) \in {name(x) : x \in Range(ps) \ r.leave_next_hand}
    THEN [result |-> "name already taken", players |-> ps,
          room |-> [r EXCEPT !.packets = {}]]
    ELSE LET r1 == [r EXCEPT !.client = @ \cup {c},
                             !.current_room = @ \cup {c},
                             !.joined = @ \cup {c}]
         IN  IF r.game_in_progress
             THEN [result |-> "joined", players |-> ps,
                   room |-> send_game_event(
                                [r1 EXCEPT !.joining_queue = Append(@, c)], {c},
                                <<RoomEvent(IF h.winners # {} THEN RESET_PLAYERS
                                                              ELSE JOIN_MID_GAME)>>)]
             ELSE [result |-> "joined", players |-> Append(ps, c),
                   room |-> broadcast([r1 EXCEPT !.player_number[c] = Len(ps)],
                                      Append(ps, c), <<RoomEvent(RESET_PLAYERS)>>)]

(***************************************************************************)
(* ServerGameRoom.leave of the client c, whose current_player is the       *)
(* HandlerPlayer c.                                                        *)
(***************************************************************************)
leave(r, ps, h, c) ==
    LET r1 == [r EXCEPT !.spectators = Remove(@, c),
                        !.joining_queue = Remove(@, c),
                        !.packets = {}]
        gone(r3) == [r3 EXCEPT !.leave_next_hand = @ \cup {c},
                               !.client = @ \ {c},
                               !.current_room = @ \ {c}]
    IN  IF c \in Range(ps)
        THEN IF r.game_in_progress
             THEN IF h.current_turn = r.player_number[c]
                  THEN LET f == PlayerFold(r1, ps, h, c)
                       IN  [players |-> ps, hand |-> f.hand, events |-> f.events,
                            room |-> gone(f.room)]
                  ELSE [players |-> ps, hand |-> h, events |-> <<>>,
                        room |-> gone(r1)]
             ELSE LET ps1 == Remove(ps, c)
                      r2 == [r1 EXCEPT !.player_number =
                                [x \in DOMAIN @ |->
                                    IF \E i \in DOMAIN ps1 : ps1[i] = x
                                    THEN (CHOOSE i \in DOMAIN ps1 : ps1[i] = x) - 1
                                    ELSE @[x]]]
                  IN  [players |-> ps1, hand |-> h, events |-> <<>>,
                       room |-> gone(broadcast(r2, ps1, <<RoomEvent(RESET_PLAYERS)>>))]
        ELSE [players |-> ps, hand |-> h, events |-> <<>>, room |-> gone(r1)]

\* A room no client has joined: ServerGameRoom.__init__
InitRoom ==
    /\ dealer = 0
    /\ sb_amount = DefaultSB
    /\ min_bet = 2 * DefaultSB
    /\ players = <<>>
    /\ has_deal = FALSE
    /\ deal = DealInit(<<>>)
    /\ started = FALSE
    /\ start_money = <<>>
    /\ last = NoOp
    /\ events = <<>>
    /\ room = [game_in_progress |-> FALSE,
               joining_queue |-> <<>>,
               spectators |-> <<>>,
               client |-> {},
               leave_next_hand |-> {},
               player_number |-> [c \in Clients |-> -1],
               current_room |-> {},
               joined |-> {},
               timers |-> {},
               packets |-> {},
               chips |-> [c \in Clients |-> StartingChips],
               next_hand |-> "none",
               error |-> FALSE]
    /\ NoSide

\* ClientHandler.join_room of a client that has not been in the room.
JoinRoom(c) ==
    /\ c \in Clients \ room.joined
    /\ LET j == join(room, players, Hand, c)
       IN  /\ room' = j.room
           /\ players' = j.players
    /\ events' = <<>>
    /\ UNCHANGED <<dealer, sb_amount, min_bet, sideVars, has_deal, deal, started, start_money, last>>

\* join_room in the rooms whose games are followed: those that get at most
\* MaxPlayers players before the game starts.  The clients are numbered in
\* the order in which they get into the room.
Join(c) ==
    /\ game_in_progress \/ Len(players) < MaxPlayers
    /\ \A b \in Clients \ room.joined : c <= b
    /\ JoinRoom(c)

\* ClientHandler.leave_room of a client in the room: the request or the loss
\* of the connection.
Leave(c) ==
    /\ c \in current_room
    /\ LET l == leave(room, players, Hand, c)
       IN  /\ room' = l.room
           /\ players' = l.players
           /\ SetHand(l.hand)
           /\ events' = l.events
    /\ UNCHANGED <<dealer, sb_amount, min_bet, sideVars, has_deal, started, start_money, last>>

\* start_game: the game is in progress and has the hand of the players in
\* the room, each with the starting chips of the room.
StartGame ==
    /\ ~game_in_progress
    /\ Len(players) >= 2
    /\ LET stacks == [p \in 0 .. Len(players) - 1 |-> StartingChips]
       IN  /\ deal' = DealInit(stacks)
           /\ start_money' = stacks
    /\ has_deal' = TRUE
    /\ started' = FALSE
    /\ room' = broadcast([room EXCEPT !.game_in_progress = TRUE], players,
                         <<RoomEvent(NEW_HAND)>>)
    /\ events' = <<>>
    /\ UNCHANGED <<dealer, sb_amount, min_bet, sideVars, players, last>>

\* time_next_event, NEW_HAND: the timer that calls start_hand.
StartHand ==
    /\ game_in_progress /\ has_deal /\ ~started
    /\ LET r == start_deal(Hand)
       IN  /\ SetHand(r.hand)
           /\ events' = r.events
           /\ room' = broadcast(room, players, r.events)
    /\ started' = TRUE
    /\ UNCHANGED <<dealer, sb_amount, min_bet, sideVars, players, has_deal, start_money, last>>

\* time_next_event, ROUND_FINISH and SKIP_ROUND: the timer that calls
\* next_round.
RoomNextRound ==
    /\ started /\ round_finished /\ winners = {}
    /\ \E new_scores \in Scores(Hand) :
          LET r == next_round(Hand, new_scores)
          IN  /\ SetHand(r.hand)
              /\ events' = r.events
              /\ room' = broadcast(room, players, r.events)
    /\ UNCHANGED <<dealer, sb_amount, min_bet, sideVars, players, has_deal, started, start_money, last>>

\* The timer send_game_event started for the HandlerPlayer x fires.
FoldTimer(x) ==
    /\ x \in timers
    /\ LET f == PlayerFold([room EXCEPT !.timers = @ \ {x}], players, Hand, x)
       IN  /\ SetHand(f.hand)
           /\ events' = f.events
           /\ room' = f.room
    /\ UNCHANGED <<dealer, sb_amount, min_bet, sideVars, players, has_deal, started, start_money, last>>

\* Player.action of the HandlerPlayer of a connected client, on its turn.
ClientAction(c, action_type, new_amount) ==
    /\ started /\ winners = {}
    /\ c \in Range(players) \cap client
    /\ CurrentPlayer(Hand, players) = c
    /\ LET r == action(Hand, action_type, new_amount, FALSE)
       IN  /\ SetHand(r.hand)
           /\ events' = r.events
           /\ room' = broadcast(room, players, r.events)
    /\ UNCHANGED <<dealer, sb_amount, min_bet, sideVars, players, has_deal, started, start_money, last>>

\* The actions of the clients: fold, check or call, and the raise of all the
\* chips a player of the room starts with.
RoomAmounts(action_type) == IF action_type = RAISE THEN {StartingChips} ELSE {0}

NextRoom ==
    \/ \E c \in Clients : Join(c)
    \/ \E c \in Clients : Leave(c)
    \/ StartGame
    \/ StartHand
    \/ RoomNextRound
    \/ \E x \in Clients : FoldTimer(x)
    \/ \E c \in Clients : \E t \in ActionTypes : \E a \in RoomAmounts(t) :
          ClientAction(c, t, a)

SpecRoom == InitRoom /\ [][NextRoom]_vars

\* ClientHandler.handle_packet of a GAME_ACTION packet with the content
\* (action_type, new_amount) from the client c: the branch is empty.  last
\* keeps the packet.
HandleGameAction(c, action_type, new_amount) ==
    /\ c \in current_room
    /\ room' = [room EXCEPT !.packets = {}]
    /\ events' = <<>>
    /\ last' = [op |-> "GAME_ACTION", client |-> c, action_type |-> action_type,
                new_amount |-> new_amount, result |-> <<>>]
    /\ UNCHANGED <<dealer, sb_amount, min_bet, sideVars, players, has_deal, deal, started,
                   start_money>>

\* The room as the server runs it: what the clients do in a hand reaches it
\* in GAME_ACTION packets only.  The folds of leave and of the fold timers
\* are the only actions of a hand, so no betting round finishes and the
\* timer of ROUND_FINISH is never started.
NextServer ==
    \/ \E c \in Clients : Join(c)
    \/ \E c \in Clients : Leave(c)
    \/ StartGame
    \/ StartHand
    \/ \E x \in Clients : FoldTimer(x)
    \/ \E c \in Clients : \E t \in ActionTypes : \E a \in RoomAmounts(t) :
          HandleGameAction(c, t, a)

SpecServer == InitRoom /\ [][NextServer]_vars

\* A room before its game starts: clients join and leave.
NextLobby ==
    \/ \E c \in Clients : JoinRoom(c)
    \/ \E c \in Clients : Leave(c)

SpecLobby == InitRoom /\ [][NextLobby]_vars

(***************************************************************************)
(* The boundary between two hands of a room.  ServerGameRoom's             *)
(* prepare_next_hand of the room r with the players ps, the hand h that    *)
(* has ended and the dealer d: the players that have no chips left or are  *)
(* flagged leave_next_hand go, those of them that still have a client are  *)
(* made spectators, and the joining queue is let in while seats are free.  *)
(***************************************************************************)
prepare_next_hand(r, ps, h, d) ==
    LET staying == SelectSeq(ps, LAMBDA x : /\ h.money[r.player_number[x]] > 0
                                            /\ x \notin r.leave_next_hand)
        eliminated_players == SelectSeq(ps, LAMBDA x : x \notin Range(staying))
        free == max_players - Len(staying)
        n == IF Len(r.joining_queue) < free THEN Len(r.joining_queue)
             ELSE IF free < 0 THEN 0 ELSE free
        seated == staying \o SubSeq(r.joining_queue, 1, n)
    IN  [players |-> seated,
         dealer |-> IF Len(staying) > 0 THEN (d + 1) % Len(staying) ELSE d,
         should_reset_players |-> staying # ps \/ r.joining_queue # <<>>,
         room |-> [r EXCEPT
                     !.spectators = SelectSeq(@ \o eliminated_players,
                                              LAMBDA x : x \in r.client),
                     !.joining_queue = SubSeq(@, n + 1, Len(@)),
                     !.chips = [x \in DOMAIN @ |->
                                   IF x \in Range(ps)
                                   THEN h.money[r.player_number[x]] ELSE @[x]],
                     !.player_number =
                         [x \in DOMAIN @ |->
                             IF x \in Range(seated)
                             THEN (CHOOSE i \in DOMAIN seated : seated[i] = x) - 1
                             ELSE @[x]]]]

\* time_next_event, SHOWDOWN and RESET_HAND: the timer broadcasts RESET_HAND,
\* on which the room prepares the next hand and starts the timers of the
\* RESET_PLAYERS broadcast and of new_hand.
ResetHand ==
    /\ game_in_progress /\ started /\ winners # {}
    /\ room.next_hand = "none"
    /\ LET r == broadcast(room, players, <<RoomEvent(RESET_HAND)>>)
           n == prepare_next_hand(r, players, Hand, dealer)
       IN  /\ players' = n.players
           /\ dealer' = n.dealer
           /\ room' = [n.room EXCEPT
                          !.next_hand = IF n.should_reset_players
                                        THEN "reset_players" ELSE "new_hand"]
    /\ events' = <<>>
    /\ UNCHANGED <<sb_amount, min_bet, sideVars, has_deal, deal, started, start_money, last>>

\* time_next_event, RESET_HAND: the timer that broadcasts RESET_PLAYERS.
ResetPlayers ==
    /\ room.next_hand = "reset_players"
    /\ room' = broadcast([room EXCEPT !.next_hand = "new_hand"], players,
                         <<RoomEvent(RESET_PLAYERS)>>)
    /\ events' = <<>>
    /\ UNCHANGED <<dealer, sb_amount, min_bet, sideVars, players, has_deal, deal, started,
                   start_money, last>>

\* time_next_event, RESET_HAND: the timer that calls new_hand, which makes
\* the hand of the players of the room, if they are two or more, and
\* broadcasts NEW_HAND.
NewHand ==
    /\ room.next_hand = "new_hand"
    /\ IF Len(players) >= 2
       THEN LET stacks == [p \in 0 .. Len(players) - 1 |-> room.chips[players[p + 1]]]
            IN  /\ deal' = DealInit(stacks)
                /\ start_money' = stacks
                /\ started' = FALSE
                /\ room' = broadcast([room EXCEPT !.next_hand = "done"], players,
                                     <<RoomEvent(NEW_HAND)>>)
       ELSE /\ UNCHANGED <<deal, start_money, started>>
            /\ room' = [room EXCEPT !.next_hand = "done", !.packets = {}]
    /\ events' = <<>>
    /\ UNCHANGED <<dealer, sb_amount, min_bet, sideVars, players, has_deal, last>>

\* A room from its first hand to the call of new_hand for its second hand.
NextHands ==
    \/ room.next_hand # "done" /\ NextRoom
    \/ ResetHand
    \/ ResetPlayers
    \/ NewHand

SpecHands == InitRoom /\ [][NextHands]_vars

\* The bets and the seats are not followed.
NoEngine ==
    /\ dealer = 0
    /\ sb_amount = DefaultSB
    /\ min_bet = 2 * DefaultSB
    /\ players = <<>>
    /\ has_deal = FALSE
    /\ deal = DealInit(<<>>)
    /\ started = FALSE
    /\ start_money = <<>>
    /\ last = NoOp
    /\ events = <<>>
    /\ room = NoRoom

(***************************************************************************)
(* The cards of a hand of the server and the packets that carry them.      *)
(* table holds two runs a and b of the server, on two shuffles of the      *)
(* deck, that are taken through the same operations; a run has the deck,   *)
(* the pocket cards of the seats, the community cards and the packets its  *)
(* last operation sent.  The connections are those of the MaxPlayers       *)
(* players of the hand and that of one client that joins during the hand.  *)
(***************************************************************************)
\* The cards a hand draws (two for each player and five for the board) and
\* one more, which stays in the deck.
NumCards == 2 * MaxPlayers + 6

Swap(d, i, j) ==
    [k \in DOMAIN d |-> IF k = i THEN d[j] ELSE IF k = j THEN d[i] ELSE d[k]]

\* generate_deck: the shuffles followed are the sorted deck and those that
\* have two of its cards exchanged.
generate_deck == {Swap([k \in 1 .. NumCards |-> k], i, j) : i, j \in 1 .. NumCards}

TableSeats == 0 .. MaxPlayers - 1
Joiner == MaxPlayers

\* Deal.__init__: the first cards of the deck are dealt, two to a player.
DealCards(d) ==
    [deck |-> SubSeq(d, 2 * MaxPlayers + 1, Len(d)),
     pocket_cards |-> [p \in TableSeats |-> <<d[2 * p + 1], d[2 * p + 2]>>],
     community_cards |-> <<>>,
     showdown |-> FALSE,
     sent |-> {}]

\* next_round: three cards are drawn for the flop, one for the turn and one
\* for the river; the call after the river is the showdown.
DrawCards(t) ==
    IF Len(t.community_cards) < 5
    THEN LET draw_n_cards == IF Len(t.community_cards) = 0 THEN 3 ELSE 1
         IN  [t EXCEPT !.community_cards = @ \o SubSeq(t.deck, 1, draw_n_cards),
                       !.deck = SubSeq(@, draw_n_cards + 1, Len(@))]
    ELSE [t EXCEPT !.showdown = TRUE]

\* The cards of the sync data of an event: the community cards and, once the
\* hand is at its showdown, the pocket cards of the players.
dump_game_sync_data(t, code) ==
    [code |-> code,
     community_cards |-> t.community_cards,
     pocket_cards |-> IF t.showdown THEN t.pocket_cards ELSE <<>>,
     client_pocket_cards |-> <<>>]

\* Every client is sent the pocket cards of the player at seat 0.
client_pocket_cards_OfDealer(t, x) == t.pocket_cards[0]

\* self.player_hand.pocket_cards of the HandlerPlayer at seat x
client_pocket_cards(t, x) == t.pocket_cards[x]

\* send_game_event of the HandlerPlayer x: the GAME_DATA packet and the
\* GAME_EVENT packet its client is sent.
GamePackets(t, x, code) ==
    {[to |-> x, type |-> "GAME_DATA",
      content |-> [dump_game_sync_data(t, code) EXCEPT
                      !.client_pocket_cards =
                          IF code = NEW_HAND THEN client_pocket_cards(t, x) ELSE @]],
     [to |-> x, type |-> "GAME_EVENT",
      content |-> [code |-> code, community_cards |-> <<>>,
                   pocket_cards |-> <<>>, client_pocket_cards |-> <<>>]]}

\* The broadcast of an event to the connections to.
TableBroadcast(t, to, code) ==
    [t EXCEPT !.sent = UNION {GamePackets(t, x, code) : x \in to}]

InitTable ==
    /\ NoEngine
    /\ replica = <<>> /\ comms = <<>> /\ hand_ranking = <<>> /\ stream = <<>> /\ handlers = <<>>
    /\ \E da \in generate_deck : \E db \in generate_deck :
          table = [a |-> DealCards(da), b |-> DealCards(db),
                   new_hand |-> FALSE, joined |-> FALSE]

\* new_hand: NEW_HAND is broadcast to the players of the hand.
SendNewHand ==
    /\ ~table.new_hand
    /\ table' = [table EXCEPT !.a = TableBroadcast(@, TableSeats, NEW_HAND),
                              !.b = TableBroadcast(@, TableSeats, NEW_HAND),
                              !.new_hand = TRUE]
    /\ UNCHANGED <<engineVars, replica, comms, hand_ranking, stream, handlers>>

\* join of a client during the hand: JOIN_MID_GAME, or RESET_PLAYERS if the
\* hand has ended, is sent to the joiner.
JoinMidGame ==
    /\ table.new_hand /\ ~table.joined
    /\ LET code == IF table.a.showdown THEN RESET_PLAYERS ELSE JOIN_MID_GAME
       IN  table' = [table EXCEPT !.a = TableBroadcast(@, {Joiner}, code),
                                  !.b = TableBroadcast(@, {Joiner}, code),
                                  !.joined = TRUE]
    /\ UNCHANGED <<engineVars, replica, comms, hand_ranking, stream, handlers>>

\* next_round with its broadcast: NEW_ROUND when cards were drawn, DEAL_END
\* when the hand went to its showdown.
TableNextRound ==
    /\ table.new_hand /\ ~table.a.showdown
    /\ LET to == TableSeats \cup (IF table.joined THEN {Joiner} ELSE {})
           code == IF Len(table.a.community_cards) < 5 THEN NEW_ROUND ELSE DEAL_END
       IN  table' = [table EXCEPT !.a = TableBroadcast(DrawCards(@), to, code),
                                  !.b = TableBroadcast(DrawCards(@), to, code)]
    /\ UNCHANGED <<engineVars, replica, comms, hand_ranking, stream, handlers>>

NextTable ==
    \/ SendNewHand
    \/ JoinMidGame
    \/ TableNextRound

SpecTable == InitTable /\ [][NextTable]_vars

\* The cards of the full deck: 13 ranks of 4 suits, numbered in the order
\* generate_deck lists them.
DeckSize == 52

\* The rosters followed: from two players up to the first roster that needs
\* more pocket cards than the deck has.
MaxRoster == DeckSize \div 2 + 1

\* The decks followed: the order generate_deck returns and two exchanges.
FullDecks ==
    {Swap([k \in 1 .. DeckSize |-> k], 1, j) : j \in {1, 2, DeckSize}}

\* s[a:b] of a list: the slice stops at the end of the list.
Slice(s, a, b) ==
    LET to == IF b < Len(s) THEN b ELSE Len(s)
    IN  [i \in 1 .. (IF to > a THEN to - a ELSE 0) |-> s[a + i]]

\* Deal.__init__ for n players: the first 2n cards leave the deck and the
\* player at index i gets the slice [2i : 2i + 2] of them.
DealOf(d, n) ==
    LET dealed_cards == Slice(d, 0, 2 * n)
    IN  [deck |-> Slice(d, 2 * n, Len(d)),
         pocket_cards |-> [i \in 0 .. n - 1 |-> Slice(dealed_cards, 2 * i, 2 * i + 2)],
         community_cards |-> <<>>,
         showdown |-> FALSE,
         raised |-> FALSE]

\* The cards part of next_round: deck.pop(0) is appended draw_n_cards times,
\* and raises IndexError once the deck is empty, which leaves the cards
\* drawn before it on the board.
PopCards(t) ==
    IF Len(t.community_cards) < 5
    THEN LET draw_n_cards == IF Len(t.community_cards) = 0 THEN 3 ELSE 1
             drawn == Slice(t.deck, 0, draw_n_cards)
         IN  [t EXCEPT !.community_cards = @ \o drawn,
                       !.deck = Slice(@, Len(drawn), Len(@)),
                       !.raised = Len(drawn) < draw_n_cards]
    ELSE [t EXCEPT !.showdown = TRUE]

\* A Deal of any roster right after its construction.  No method of Deal
\* other than __init__ and next_round assigns the deck, the pocket cards or
\* the community cards.
InitDeck ==
    /\ NoEngine
    /\ replica = <<>> /\ comms = <<>> /\ hand_ranking = <<>> /\ stream = <<>> /\ handlers = <<>>
    /\ \E d \in FullDecks : \E n \in 2 .. MaxRoster : table = DealOf(d, n)

DeckNextRound ==
    /\ ~table.showdown /\ ~table.raised
    /\ table' = PopCards(table)
    /\ UNCHANGED <<engineVars, replica, comms, hand_ranking, stream, handlers>>

SpecDeck == InitDeck /\ [][DeckNextRound]_vars

(***************************************************************************)
(* The client of a multiplayer game: MultiplayerGame, whose hand is a      *)
(* replica of the hand of the server, and the game_event_queue that        *)
(* ClientComms.receive fills and MultiplayerGame.update empties.  The      *)
(* server's hand is the hand of the variables above; the client is one     *)
(* that joins the room during the hand.                                    *)
(***************************************************************************)
\* The event codes that come with sync data.
GAME_SYNC == {NEW_HAND, NEW_ROUND, SKIP_ROUND, JOIN_MID_GAME}

DEFAULT_ACTION == ANY_ACTION

NoSync == <<>>

\* What receive appends for a GAME_EVENT packet and for a GAME_DATA packet.
QueuedEvent(ev) == [type |-> "GameEvent", event |-> ev, sync |-> NoSync]
QueuedSync(code, h) ==
    [type |-> "GameSyncEvent", event |-> GameEvent(code, -1, -1, "", 0),
     sync |-> [code |-> code, hand |-> h]]

\* send_game_event to the client, then receive: the GAME_DATA packet of an
\* event that has sync data, and the GAME_EVENT packet.
Received(h, ev) ==
    IF ev.code \in GAME_SYNC
    THEN <<QueuedSync(ev.code, h), QueuedEvent(ev)>>
    ELSE <<QueuedEvent(ev)>>

RECURSIVE ReceivedAll(_, _)
ReceivedAll(h, evs) ==
    IF evs = <<>> THEN <<>> ELSE Received(h, Head(evs)) \o ReceivedAll(h, Tail(evs))

\* The messages on_event turns into an action, and the action of each.
ActionMessages == {"fold", "check", "call", "bet", "raise", "all in"}

ActionCode(message) ==
    IF message = "fold" THEN FOLD
    ELSE IF message \in {"check", "call"} THEN CALL
    ELSE RAISE

\* Player.action of the player prev_player of the replica.
ReplicaAction(h, prev_player, action_code, amount) ==
    IF Index(h, h.current_turn) = prev_player /\ h.winners = {}
    THEN action(h, action_code, amount, FALSE).hand
    ELSE h

\* MultiplayerHand.next_round
MultiplayerNextRound(h) ==
    [h EXCEPT !.bet_amount = 0,
              !.current_turn = get_next_turn(h, 1, dealer),
              !.round_finished = FALSE,
              !.bet = [p \in Seats(h) |-> 0],
              !.last_action = [p \in Seats(h) |->
                                  IF h.folded[p] THEN "folded"
                                  ELSE IF h.all_in[p] THEN "all in" ELSE ""],
              !.called = [p \in Seats(h) |-> FALSE]]

\* sync_game: the attributes of the sync data are loaded into the game and
\* its hand.
sync_game(g, game_sync_event) == game_sync_event.hand

\* on_event, JOIN_MID_GAME: the events made of the last actions of the players.
RECURSIVE LastActionEvents(_, _)
LastActionEvents(h, seat) ==
    IF seat \notin Seats(h) THEN <<>>
    ELSE (IF h.last_action[seat] \notin {"", "folded"}
          THEN <<QueuedEvent(GameEvent(DEFAULT_ACTION, seat, -1,
                                       h.last_action[seat],
                                       h.bet[seat]))>>
          ELSE <<>>) \o LastActionEvents(h, seat + 1)

Handled(g, appended, forwarded, error) ==
    [game |-> g, appended |-> appended, forwarded |-> forwarded, error |-> error]

\* on_event going on without the sync data its event needs.
on_event_NoCheck(g, game_event, game_sync_event) ==
    Handled(g, <<>>, TRUE, "")

(***************************************************************************)
(* MultiplayerGame.on_event on the replica g: the replica it leaves, the   *)
(* events it appends to the queue, whether the event reached the event     *)
(* receiver and the error raised.                                          *)
(***************************************************************************)
on_event(g, game_event, game_sync_event) ==
    IF game_event.code \in GAME_SYNC /\ game_sync_event = NoSync
    THEN Handled(g, <<>>, FALSE, "ValueError")
    ELSE
    LET acts == game_event.prev_player # -1 /\ game_event.message # ""
    IN
    IF acts /\ game_event.message \notin ActionMessages
    THEN Handled(g, <<>>, FALSE, "ValueError")
    ELSE
    LET g1 == IF acts
              THEN ReplicaAction(g, game_event.prev_player,
                                 ActionCode(game_event.message), game_event.bet_amount)
              ELSE g
        g2 == IF game_event.next_player # -1
              THEN [g1 EXCEPT !.current_turn = game_event.next_player]
              ELSE g1
    IN  CASE game_event.code = NEW_HAND ->
                Handled(sync_game(g2, game_sync_event), <<>>, TRUE, "")
          [] game_event.code \in {NEW_ROUND, SKIP_ROUND} ->
                Handled(MultiplayerNextRound(sync_game(g2, game_sync_event)),
                        <<>>, TRUE, "")
          [] game_event.code = JOIN_MID_GAME ->
                LET g3 == sync_game(g2, game_sync_event)
                IN  Handled(g3, LastActionEvents(g3, 0), TRUE, "")
          [] OTHER ->
                Handled(IF game_sync_event # NoSync
                        THEN sync_game(g2, game_sync_event) ELSE g2,
                        <<>>, TRUE, "")

\* The amounts of the raises of the players of the server's hand.
ReplicaAmounts(action_type) ==
    IF action_type = RAISE THEN {2 * min_bet} ELSE {0}

\* A hand of two players of the room; the client has not joined.
InitReplica ==
    /\ NewDealOf({2}, {StartingChips}, {DefaultSB})
    /\ table = <<>> /\ comms = <<>> /\ hand_ranking = <<>> /\ stream = <<>> /\ handlers = <<>>
    /\ replica = [joined |-> FALSE, game |-> DealInit(<<>>),
                  game_event_queue |-> <<>>, forwarded |-> FALSE, error |-> ""]

\* The client has handled the events it has received: the operations of the
\* server that are followed are those that find the client's queue empty.
UpToDate == replica.game_event_queue = <<>>

\* What an operation of the server leaves at the client: the packets of its
\* events, received, once the client has joined.
Deliver(h, evs) ==
    IF replica.joined
    THEN [replica EXCEPT !.game_event_queue = @ \o ReceivedAll(h, evs)]
    ELSE replica

\* time_next_event, NEW_HAND: start_hand, with its broadcast.
ServerStartHand ==
    /\ has_deal /\ ~started
    /\ UpToDate
    /\ LET r == start_deal(Hand)
       IN  /\ SetHand(r.hand)
           /\ events' = r.events
           /\ replica' = Deliver(r.hand, r.events)
    /\ started' = TRUE
    /\ UNCHANGED <<dealer, sb_amount, min_bet, players, has_deal, room, table, comms, hand_ranking, stream, handlers,
                   start_money, last>>

\* Player.action of the player whose turn it is, with its broadcast.
ServerAction(action_type, new_amount) ==
    /\ started /\ winners = {}
    /\ UpToDate
    /\ LET r == action(Hand, action_type, new_amount, FALSE)
       IN  /\ SetHand(r.hand)
           /\ events' = r.events
           /\ replica' = Deliver(r.hand, r.events)
    /\ UNCHANGED <<dealer, sb_amount, min_bet, players, has_deal, room, table, comms, hand_ranking, stream, handlers,
                   started, start_money, last>>

\* time_next_event, ROUND_FINISH and SKIP_ROUND: next_round, with its
\* broadcast.
ServerNextRound ==
    /\ started /\ round_finished /\ winners = {}
    /\ UpToDate
    /\ \E new_scores \in Scores(Hand) :
          LET r == next_round(Hand, new_scores)
          IN  /\ SetHand(r.hand)
              /\ events' = r.events
              /\ replica' = Deliver(r.hand, r.events)
    /\ UNCHANGED <<dealer, sb_amount, min_bet, players, has_deal, room, table, comms, hand_ranking, stream, handlers,
                   started, start_money, last>>

\* join while the hand is played, after its blinds: JOIN_MID_GAME is sent to
\* the client.
ReplicaJoin ==
    /\ ~replica.joined
    /\ started /\ winners = {}
    /\ replica' = [replica EXCEPT
                      !.joined = TRUE,
                      !.game_event_queue = Received(Hand, RoomEvent(JOIN_MID_GAME))]
    /\ events' = <<>>
    /\ UNCHANGED <<dealer, sb_amount, min_bet, players, has_deal, deal, room, table, comms, hand_ranking, stream, handlers,
                   started, start_money, last>>

\* MultiplayerGame.update: the first event of the queue is taken and handled.
Update ==
    /\ replica # <<>>
    /\ replica.game_event_queue # <<>>
    /\ LET event == Head(replica.game_event_queue)
           r == on_event(replica.game, event.event, event.sync)
       IN  replica' = [replica EXCEPT
                          !.game = r.game,
                          !.game_event_queue = Tail(@) \o r.appended,
                          !.forwarded = r.forwarded,
                          !.error = r.error]
    /\ UNCHANGED <<engineVars, table, comms, hand_ranking, stream, handlers>>

NextReplica ==
    \/ ServerStartHand
    \/ \E t \in ActionTypes : \E a \in ReplicaAmounts(t) : ServerAction(t, a)
    \/ ServerNextRound
    \/ ReplicaJoin
    \/ Update

SpecReplica == InitReplica /\ [][NextReplica]_vars

(***************************************************************************)
(* The requests of a client.  comms holds ClientComms (request_queue,      *)
(* last_response), the clock that time.time_ns reads, the send_request     *)
(* coroutines (where each is, its req_time, its wait_time and what it      *)
(* returned), the order in which the coroutines were started, the requests *)
(* on the wire and the number of them the server has answered.  The        *)
(* coroutine c sends "echo c", which the server answers with c.  Times are *)
(* in hundredths of a second.                                              *)
(***************************************************************************)
Coroutines == 1 .. MaxRequests

check_delay == 1
response_timeout == 500

InitComms ==
    /\ NoEngine
    /\ table = <<>> /\ replica = <<>> /\ hand_ranking = <<>> /\ stream = <<>> /\ handlers = <<>>
    /\ comms = [clock |-> 0,
                request_queue |-> <<>>,
                last_response |-> "",
                at |-> [c \in Coroutines |-> "new"],
                req_time |-> [c \in Coroutines |-> 0],
                wait_time |-> [c \in Coroutines |-> 0],
                returned |-> [c \in Coroutines |-> ""],
                started |-> <<>>,
                wire |-> <<>>,
                answered |-> 0]

\* The response of the server to the request of the coroutine c
Response(c) == ToString(c)

\* send_request up to its first yield: the time is read and appended to the
\* request queue.  ticked: the clock has advanced since it was last read.
Submit(c, ticked) ==
    /\ comms.at[c] = "new"
    /\ LET now == comms.clock + (IF ticked THEN 1 ELSE 0)
       IN  comms' = [comms EXCEPT !.clock = now,
                                  !.req_time[c] = now,
                                  !.request_queue = Append(@, now),
                                  !.started = Append(@, c),
                                  !.at[c] = "queued"]
    /\ UNCHANGED <<engineVars, table, replica, hand_ranking, stream, handlers>>

\* The coroutine finds its time at the head of the queue and sends its
\* request.
SendRequest(c) ==
    /\ comms.at[c] = "queued"
    /\ Head(comms.request_queue) = comms.req_time[c]
    /\ comms' = [comms EXCEPT !.wire = Append(@, c),
                              !.wait_time[c] = 0,
                              !.at[c] = "sent"]
    /\ UNCHANGED <<engineVars, table, replica, hand_ranking, stream, handlers>>

\* handle_basic_request of the next request on the wire, and receive of its
\* BASIC_RESPONSE packet, which sets last_response.
Respond ==
    /\ comms.answered < Len(comms.wire)
    /\ comms' = [comms EXCEPT !.answered = @ + 1,
                              !.last_response = Response(comms.wire[comms.answered + 1])]
    /\ UNCHANGED <<engineVars, table, replica, hand_ranking, stream, handlers>>

\* One turn of the loop that waits for the response, and what follows it
\* when there is a response.  most: the wait_time up to which the loop is
\* followed.
Poll(c, most) ==
    /\ comms.at[c] = "sent"
    /\ IF comms.last_response # ""
       THEN comms' = [comms EXCEPT !.returned[c] = comms.last_response,
                                   !.wait_time[c] = 0,
                                   !.request_queue = Tail(@),
                                   !.last_response = "",
                                   !.at[c] = "returned"]
       ELSE /\ comms.wait_time[c] < most
            /\ IF check_delay >= response_timeout
               THEN comms' = [comms EXCEPT !.wait_time[c] = @ + check_delay,
                                           !.request_queue = Tail(@),
                                           !.last_response = "",
                                           !.at[c] = "TimeoutError"]
               ELSE comms' = [comms EXCEPT !.wait_time[c] = @ + check_delay]
    /\ UNCHANGED <<engineVars, table, replica, hand_ranking, stream, handlers>>

NextComms ==
    \/ \E c \in Coroutines : \E ticked \in BOOLEAN : Submit(c, ticked)
    \/ \E c \in Coroutines : SendRequest(c)
    \/ Respond
    \/ \E c \in Coroutines : Poll(c, MaxWait)

SpecComms == InitComms /\ [][NextComms]_vars

\* A client whose clock advances between two requests and a server that may
\* stay silent: the wait for the response is followed past the time after
\* which send_request is to give up.
NextSilent ==
    \/ \E c \in Coroutines : Submit(c, TRUE)
    \/ \E c \in Coroutines : SendRequest(c)
    \/ Respond
    \/ \E c \in Coroutines : Poll(c, response_timeout + check_delay)

SpecSilent == InitComms /\ [][NextSilent]_vars

(***************************************************************************)
(* The join requests of the clients of a server with one room, before its  *)
(* game starts.  A room code is a sequence of characters.                  *)
(***************************************************************************)
UpperCase == {"A", "B"}
LowerCase == {"a"}

\* str.isupper: there is a cased character and no cased character is
\* lower-case.
isupper(s) ==
    /\ \E i \in 1 .. Len(s) : s[i] \in UpperCase \cup LowerCase
    /\ \A i \in 1 .. Len(s) : s[i] \notin LowerCase

\* AllinServer.rooms: the codes of the rooms of the server.
rooms == {<<"A", "A", "A", "A">>}

\* The room codes that the clients ask for.
RoomCodes ==
    {<<"A", "A", "A", "A">>, <<"B", "B", "B", "B">>, <<"a", "a", "a", "a">>,
     <<"A", "A", "A">>, <<>>}

\* ClientHandler.join_room: what it raises or "joined", and the room and the
\* players it leaves.
join_room(r, ps, h, c, room_code) ==
    LET raise(e) == [result |-> e, players |-> ps, room |-> [r EXCEPT !.packets = {}]]
    IN  IF Len(room_code) # 4 /\ ~isupper(room_code)
        THEN raise("invalid room code")
        ELSE IF room_code \notin rooms
        THEN raise("room does not exist")
        ELSE IF c \in r.current_room
        THEN raise("client is already in another room")
        ELSE join(r, ps, h, c)

\* handle_basic_request of "join <room_code>" from the client c, with the
\* response it sends.  A client gets into the room at most once.
JoinRequest(c, room_code) ==
    /\ c \in room.joined => c \in current_room
    /\ LET j == join_room(room, players, Hand, c, room_code)
       IN  /\ room' = j.room
           /\ players' = j.players
           /\ last' = [op |-> "join", client |-> c, room_code |-> room_code,
                       response |-> IF j.result = "joined" THEN "SUCCESS"
                                    ELSE "ERROR failed to join room: " \o j.result]
    /\ events' = <<>>
    /\ UNCHANGED <<dealer, sb_amount, min_bet, sideVars, has_deal, deal, started, start_money>>

NextRequests ==
    \/ \E c \in Clients : \E room_code \in RoomCodes : JoinRequest(c, room_code)
    \/ \E c \in Clients : Leave(c)

SpecRequests == InitRoom /\ [][NextRequests]_vars

(***************************************************************************)
(* HandRanking.  A card is a record of a rank (2 to 14, the ace) and a     *)
(* suit.  The rankings are followed for the hands of 5 to 7 cards of a     *)
(* part of the deck: the ranks 2 to 7 and the ace in two suits, and the    *)
(* 2 in the other two.                                                     *)
(***************************************************************************)
ROYAL_FLUSH == 1
STRAIGHT_FLUSH == 2
QUAD == 3
FULL_HOUSE == 4
FLUSH == 5
STRAIGHT == 6
TRIPLE == 7
TWO_PAIR == 8
PAIR == 9
HIGH_CARD == 10

RankedCards ==
    {[rank |-> r, suit |-> u] : r \in (2 .. 7) \cup {14}, u \in {"S", "H"}}
        \cup {[rank |-> 2, suit |-> u] : u \in {"D", "C"}}

\* The keys of rank_count and suit_count, and their values.
RanksOf(cards) == {c.rank : c \in cards}
rank_count(cards, r) == Cardinality({c \in cards : c.rank = r})
suit_count(cards, u) == Cardinality({c \in cards : c.suit = u})

\* sorted(...) of a set of numbers
RECURSIVE sorted(_)
sorted(S) ==
    IF S = {} THEN <<>>
    ELSE LET m == CHOOSE x \in S : \A y \in S : x <= y
         IN  <<m>> \o sorted(S \ {m})

\* The ranking by the rank count of the cards: the two highest counts of
\* sorted_rank_count decide.
RankingByCount(cards) ==
    LET first == CHOOSE r \in RanksOf(cards) :
                     \A q \in RanksOf(cards) : rank_count(cards, q) <= rank_count(cards, r)
        second == CHOOSE r \in RanksOf(cards) \ {first} :
                     \A q \in RanksOf(cards) \ {first} :
                         rank_count(cards, q) <= rank_count(cards, r)
        highest_count == rank_count(cards, first)
        highest_count_2 == rank_count(cards, second)
    IN  CASE highest_count = 4 -> QUAD
          [] highest_count = 3 -> IF highest_count_2 >= 2 THEN FULL_HOUSE ELSE TRIPLE
          [] highest_count = 2 -> IF highest_count_2 >= 2 THEN TWO_PAIR ELSE PAIR
          [] highest_count = 1 -> HIGH_CARD

\* sorted_ranks: the ranks in order, and 1 appended after them when there is
\* an ace.
sorted_ranks(cards) ==
    sorted(RanksOf(cards)) \o (IF 14 \in RanksOf(cards) THEN <<1>> ELSE <<>>)

\* The ranking_type after the test of the run consecutives that ends in y:
\* matcher_suit is the suit of the first rank of the run that has one suit.
StraightRanking(cards, consecutives, y, ranking_type) ==
    LET straight_suits(r) == {c.suit : c \in {d \in cards : d.rank = r}}
        single == {i \in 1 .. Len(consecutives) :
                      Cardinality({c \in cards : c.rank = consecutives[i]}) = 1}
    IN  IF single = {} THEN -1      \* StopIteration
        ELSE LET i0 == CHOOSE i \in single : \A j \in single : i <= j
                 matcher_suit == CHOOSE u \in straight_suits(consecutives[i0]) : TRUE
             IN  IF \E i \in 1 .. Len(consecutives) :
                        matcher_suit \notin straight_suits(consecutives[i])
                 THEN IF ranking_type <= STRAIGHT THEN ranking_type ELSE STRAIGHT
                 ELSE IF y = 14 THEN ROYAL_FLUSH ELSE STRAIGHT_FLUSH

\* The loop over the neighbours x, y of sorted_ranks, from the i-th pair on.
RECURSIVE StraightLoop(_, _, _, _, _)
StraightLoop(cards, ranks, i, consecutives, ranking_type) ==
    IF i >= Len(ranks) THEN ranking_type
    ELSE LET x == ranks[i]
             y == ranks[i + 1]
             run == IF x + 1 = y THEN Append(consecutives, y) ELSE <<y>>
         IN  StraightLoop(cards, ranks, i + 1, run,
                          IF Len(run) >= 5
                          THEN StraightRanking(cards, run, y, ranking_type)
                          ELSE ranking_type)

\* HandRanking.calculate_ranking: the ranking_type of 5 to 7 cards.
calculate_ranking(cards) ==
    LET by_count == RankingByCount(cards)
        ranks == sorted_ranks(cards)
        by_straight == IF Len(ranks) >= 5
                       THEN StraightLoop(cards, ranks, 1, <<ranks[1]>>, by_count)
                       ELSE by_count
    IN  IF \E u \in {c.suit : c \in cards} : suit_count(cards, u) >= 5
        THEN IF by_straight <= FLUSH THEN by_straight ELSE FLUSH
        ELSE by_straight

InitRanking ==
    /\ NoEngine
    /\ table = <<>> /\ replica = <<>> /\ comms = <<>> /\ stream = <<>> /\ handlers = <<>>
    /\ \E cards \in {h \in SUBSET RankedCards : Cardinality(h) \in 5 .. 7} :
           hand_ranking = [cards |-> cards, ranking_type |-> 0]

\* HandRanking.__init__, after the cards and the ranking_type 0 are set
Rank ==
    /\ hand_ranking.ranking_type = 0
    /\ hand_ranking' = [hand_ranking EXCEPT !.ranking_type = calculate_ranking(hand_ranking.cards)]
    /\ UNCHANGED <<engineVars, table, replica, comms, stream, handlers>>

NextRanking == Rank

SpecRanking == InitRanking /\ [][NextRanking]_vars

(***************************************************************************)
(* The frames of a connection.  A Packet is a record of a packet type and  *)
(* a content, here a sequence of at most one byte.  A pickle of a packet   *)
(* is the type, the length of the content and the content: it can be       *)
(* loaded from the bytes that hold all of it and not from fewer.           *)
(***************************************************************************)
Packets == {[packet_type |-> 0, content |-> <<>>],
            [packet_type |-> 1, content |-> <<7>>]}

pickle_dumps(packet) ==
    <<packet.packet_type, Len(packet.content)>> \o packet.content

\* What a call gives: the packet it returns, None, or the error it raises.
Returns(packet) == [outcome |-> "packet", packet |-> packet]
None == [outcome |-> "None", packet |-> <<>>]
RaisesError(error) == [outcome |-> error, packet |-> <<>>]

\* pickle.loads: the packet, or the error it raises
pickle_loads(b) ==
    IF b = <<>> THEN RaisesError("EOFError")
    ELSE IF Len(b) < 2 \/ Len(b) < 2 + b[2] THEN RaisesError("UnpicklingError")
    ELSE Returns([packet_type |-> b[1], content |-> SubSeq(b, 3, 2 + b[2])])

\* struct.pack("i", n) and struct.unpack("i", b)[0]: the four bytes of a
\* signed 32-bit integer, the lowest first; the lengths are not negative.
struct_pack(n) ==
    <<n % 256, (n \div 256) % 256, (n \div 65536) % 256, (n \div 16777216) % 256>>

\* struct.unpack raises struct.error when it is not given four bytes.
struct_unpack(b) ==
    b[1] + 256 * b[2] + 65536 * b[3]
        + 16777216 * (IF b[4] >= 128 THEN b[4] - 256 ELSE b[4])

InitStream ==
    /\ NoEngine
    /\ table = <<>> /\ replica = <<>> /\ comms = <<>> /\ hand_ranking = <<>> /\ handlers = <<>>
    /\ stream = [sent |-> <<>>,
                 wire |-> <<>>,
                 closed |-> FALSE,
                 at |-> "recv(4)",
                 packet_len |-> 0,
                 received |-> <<>>]

\* send_packet: the length of the pickle and the pickle go on the wire.
SendPacket(packet) ==
    /\ ~stream.closed
    /\ Len(stream.sent) < MaxPackets
    /\ LET packet_raw == pickle_dumps(packet)
           packet_len_raw == struct_pack(Len(packet_raw))
       IN  stream' = [stream EXCEPT !.sent = Append(@, packet),
                                    !.wire = @ \o packet_len_raw \o packet_raw]
    /\ UNCHANGED <<engineVars, table, replica, comms, hand_ranking, handlers>>

\* The sender closes the connection.
Close ==
    /\ ~stream.closed
    /\ stream' = [stream EXCEPT !.closed = TRUE]
    /\ UNCHANGED <<engineVars, table, replica, comms, hand_ranking, handlers>>

\* s.recv(bufsize) that returns n bytes: as many as asked for at most, one
\* at least when there are bytes, none at the end of the stream.
recv(bufsize, n) ==
    /\ n <= bufsize /\ n <= Len(stream.wire)
    /\ IF stream.wire = <<>> THEN stream.closed ELSE n >= 1

\* receive_packet up to the second recv, or to the None it returns: the
\* caller stops at None.
ReceiveLen(n) ==
    /\ stream.at = "recv(4)"
    /\ recv(4, n)
    /\ LET rest == SubSeq(stream.wire, n + 1, Len(stream.wire))
       IN  IF n # 4
           THEN stream' = [stream EXCEPT !.wire = rest,
                                         !.received = Append(@, None),
                                         !.at = "stopped"]
           ELSE stream' = [stream EXCEPT !.wire = rest,
                                         !.packet_len = struct_unpack(SubSeq(stream.wire, 1, 4)),
                                         !.at = "recv(packet_len)"]
    /\ UNCHANGED <<engineVars, table, replica, comms, hand_ranking, handlers>>

\* receive_packet from the second recv on: the packet it returns or the
\* error that pickle.loads raises, which ends the caller's loop.
ReceivePacket(n) ==
    /\ stream.at = "recv(packet_len)"
    /\ recv(stream.packet_len, n)
    /\ LET loaded == pickle_loads(SubSeq(stream.wire, 1, n))
       IN  stream' = [stream EXCEPT !.wire = SubSeq(@, n + 1, Len(@)),
                                    !.received = Append(@, loaded),
                                    !.at = IF loaded.outcome = "packet" THEN "recv(4)"
                                                                        ELSE "stopped"]
    /\ UNCHANGED <<engineVars, table, replica, comms, hand_ranking, handlers>>

NextStream ==
    \/ \E packet \in Packets : SendPacket(packet)
    \/ Close
    \/ \E n \in 0 .. 4 : ReceiveLen(n)
    \/ \E n \in 0 .. 3 : ReceivePacket(n)

SpecStream == InitStream /\ [][NextStream]_vars

(***************************************************************************)
(* ServerGameRoom.join and ServerGameRoom.leave of a room with no game in  *)
(* progress, called by the threads of the connections.  ThreadingTCPServer *)
(* runs ClientHandler.handle of every connection in a thread of its own    *)
(* and neither the server nor the room holds a lock, so a thread may be    *)
(* switched out between any two reads or writes of the room.  A            *)
(* HandlerPlayer is named by the thread that made it.                      *)
(***************************************************************************)
Threads == 0 .. MaxPlayers

\* A room without players; no thread has sent a request.  A HandlerPlayer
\* that has not been given a player number has none (-1).
InitHandlers ==
    /\ NoEngine
    /\ table = <<>> /\ replica = <<>> /\ comms = <<>> /\ hand_ranking = <<>> /\ stream = <<>>
    /\ handlers = [players |-> <<>>,
                   player_number |-> [c \in Threads |-> -1],
                   at |-> [c \in Threads |-> "idle"],
                   player |-> [c \in Threads |-> -1],
                   i |-> [c \in Threads |-> 0]]

OtherVars == <<engineVars, table, replica, comms, hand_ranking, stream>>

\* join: self.players.append(new_handler_player)
JoinAppend(c) ==
    /\ handlers.at[c] = "idle"
    /\ handlers' = [handlers EXCEPT !.players = Append(@, c),
                                    !.at[c] = "join: len"]
    /\ UNCHANGED OtherVars

\* join: the right-hand side len(self.players) - 1 is evaluated first
JoinLen(c) ==
    /\ handlers.at[c] = "join: len"
    /\ handlers' = [handlers EXCEPT !.i[c] = Len(handlers.players) - 1,
                                    !.at[c] = "join: players[-1]"]
    /\ UNCHANGED OtherVars

\* join: then the target self.players[-1]
JoinLast(c) ==
    /\ handlers.at[c] = "join: players[-1]"
    /\ handlers' = [handlers EXCEPT !.player[c] = handlers.players[Len(handlers.players)],
                                    !.at[c] = "join: store"]
    /\ UNCHANGED OtherVars

\* join: the player number is stored; the broadcast follows and join_room
\* sets current_room and current_player of the handler.
JoinStore(c) ==
    /\ handlers.at[c] = "join: store"
    /\ handlers' = [handlers EXCEPT !.player_number[handlers.player[c]] = handlers.i[c],
                                    !.at[c] = "in room",
                                    !.player[c] = -1, !.i[c] = 0]
    /\ UNCHANGED OtherVars

\* leave: self.players.remove(client.current_player)
LeaveRemove(c) ==
    /\ handlers.at[c] = "in room"
    /\ handlers' = [handlers EXCEPT !.players = SelectSeq(@, LAMBDA x : x # c),
                                    !.at[c] = "leave: for",
                                    !.i[c] = 0]
    /\ UNCHANGED OtherVars

\* leave: the iterator of enumerate(self.players) yields the next index and
\* the player at that index of the list as it is now, or ends the loop; the
\* broadcast follows and leave_room clears current_room.
LeaveNext(c) ==
    /\ handlers.at[c] = "leave: for"
    /\ IF handlers.i[c] < Len(handlers.players)
       THEN handlers' = [handlers EXCEPT !.player[c] = handlers.players[handlers.i[c] + 1],
                                         !.at[c] = "leave: store"]
       ELSE handlers' = [handlers EXCEPT !.at[c] = "left",
                                         !.player[c] = -1, !.i[c] = 0]
    /\ UNCHANGED OtherVars

\* leave: player.player_number = i
LeaveStore(c) ==
    /\ handlers.at[c] = "leave: store"
    /\ handlers' = [handlers EXCEPT !.player_number[handlers.player[c]] = handlers.i[c],
                                    !.i[c] = @ + 1,
                                    !.at[c] = "leave: for"]
    /\ UNCHANGED OtherVars

NextHandlers ==
    \E c \in Threads :
        \/ JoinAppend(c)
        \/ JoinLen(c)
        \/ JoinLast(c)
        \/ JoinStore(c)
        \/ LeaveRemove(c)
        \/ LeaveNext(c)
        \/ LeaveStore(c)

SpecHandlers == InitHandlers /\ [][NextHandlers]_vars

(***************************************************************************)
(* The server threads that send on the socket of one connection: the       *)
(* thread of its ClientHandler, which answers the requests of the client   *)
(* with send_basic_response, and a timer thread, whose callbacks broadcast *)
(* the events of the hand and so call send_game_event of the client's      *)
(* HandlerPlayer.  Neither takes a lock.  The connection is the record     *)
(* stream; its wire holds the bytes in the order the calls of s.send put   *)
(* them there, and nothing is read from it.                                *)
(***************************************************************************)
PacketTypes ==
    [BASIC_REQUEST |-> 0, BASIC_RESPONSE |-> 1, GAME_ACTION |-> 2,
     GAME_EVENT |-> 3, GAME_DATA |-> 4]

Senders == {"handler", "timer"}

\* The events the timer callbacks broadcast: one that needs sync data and
\* one that does not.
TimerCodes == {NEW_ROUND, ANY_ACTION}

GameDataPacket(code) == [packet_type |-> PacketTypes.GAME_DATA, content |-> <<code>>]
GameEventPacket(code) == [packet_type |-> PacketTypes.GAME_EVENT, content |-> <<code>>]
BasicResponsePacket == [packet_type |-> PacketTypes.BASIC_RESPONSE, content |-> <<>>]

\* ClientHandler.send_packet: the calls of packets.send_packet it makes on
\* the socket of the connection.
ClientSendPacket(packet) == <<packet>>

InitSenders ==
    /\ NoEngine
    /\ table = <<>> /\ replica = <<>> /\ comms = <<>> /\ hand_ranking = <<>> /\ handlers = <<>>
    /\ stream = [wire |-> <<>>,
                 at |-> [t \in Senders |-> "idle"],
                 to_send |-> [t \in Senders |-> <<>>],
                 sent |-> <<>>,
                 responses |-> 0]

NotStream == <<engineVars, table, replica, comms, hand_ranking, handlers>>

\* send_basic_response, up to its call of send_packet
SendBasicResponse ==
    /\ stream.at["handler"] = "idle"
    /\ stream.responses < MaxPackets
    /\ stream' = [stream EXCEPT !.to_send["handler"] = <<BasicResponsePacket>>,
                                !.at["handler"] = "s.send(packet_len_raw)",
                                !.responses = @ + 1]
    /\ UNCHANGED NotStream

\* send_game_event of a HandlerPlayer that has a client, up to its first
\* call of send_packet: a GAME_DATA packet goes before the GAME_EVENT packet
\* when the code of the event needs sync data.
SendGameEvent(code) ==
    /\ stream.at["timer"] = "idle"
    /\ Len(stream.sent) < MaxPackets
    /\ stream' = [stream EXCEPT
                     !.to_send["timer"] =
                         (IF code \in GAME_SYNC
                          THEN ClientSendPacket(GameDataPacket(code)) ELSE <<>>)
                         \o ClientSendPacket(GameEventPacket(code)),
                     !.at["timer"] = "s.send(packet_len_raw)"]
    /\ UNCHANGED NotStream

\* send_packet: s.send(packet_len_raw)
SendLen(t) ==
    /\ stream.at[t] = "s.send(packet_len_raw)"
    /\ LET packet_raw == pickle_dumps(Head(stream.to_send[t]))
           packet_len_raw == struct_pack(Len(packet_raw))
       IN  stream' = [stream EXCEPT !.wire = @ \o packet_len_raw,
                                    !.at[t] = "s.send(packet_raw)"]
    /\ UNCHANGED NotStream

\* send_packet: s.send(packet_raw); the caller goes on to its next call of
\* send_packet or returns.
SendRaw(t) ==
    /\ stream.at[t] = "s.send(packet_raw)"
    /\ LET packet == Head(stream.to_send[t])
           rest == Tail(stream.to_send[t])
       IN  stream' = [stream EXCEPT
                         !.wire = @ \o pickle_dumps(packet),
                         !.to_send[t] = rest,
                         !.at[t] = IF rest = <<>> THEN "idle" ELSE "s.send(packet_len_raw)",
                         !.sent = IF rest = <<>> /\ t = "timer"
                                  THEN Append(@, packet.content[1]) ELSE @]
    /\ UNCHANGED NotStream

NextSenders ==
    \/ SendBasicResponse
    \/ \E code \in TimerCodes : SendGameEvent(code)
    \/ \E t \in Senders : SendLen(t)
    \/ \E t \in Senders : SendRaw(t)

SpecSenders == InitSenders /\ [][NextSenders]_vars

Total(f) == SumOver(f, DOMAIN f)

\* The hand accepts an action: started, round not finished, no winners.
AcceptsAction == started /\ ~round_finished /\ winners = {}

\* The players that can still act: not folded and not all-in.
CanAct(h) == {p \in NotFolded(h) : ~h.all_in[p]}

(***************************************************************************)
(* C1 (as stated): in every state of a started hand, also after the        *)
(* showdown, the pot plus the players' stacks equals the stacks the        *)
(* players had before the blinds were posted.                              *)
(***************************************************************************)
C1_ChipsConservedAlways ==
    started => pot + Total(money) = Total(start_money)

\* C1 (amended): the pot plus the players' stacks equals the stacks before
\* the blinds in every state of a started hand that has no winners yet.
C1_ChipsConservedBeforeShowdown ==
    started /\ winners = {} => pot + Total(money) = Total(start_money)

C1_Witness ==
    /\ winners = {}
    /\ community_cards = 5
    /\ last.result = <<SUCCESS>>
    /\ pot > 3 * sb_amount
    /\ \E p \in Seats(Hand) : money[p] > 0 /\ money[p] < start_money[p]

(***************************************************************************)
(* C2: when a hand has completed (it has winners), the sum of all stacks   *)
(* equals the sum before the hand: what the winners were credited is what  *)
(* the players paid into the pot, also when the pot is not divisible by    *)
(* the number of tied winners.                                             *)
(***************************************************************************)
C2_PayoutEqualsContributions ==
    winners # {} => Total(money) = Total(start_money)

(***************************************************************************)
(* C3 (as stated): in every state of a started hand round_finished is true *)
(* if and only if every non-folded player has called or is all-in.         *)
(***************************************************************************)
C3_FinishedIffAllCalled ==
    started => (round_finished <=> \A p \in NotFolded(Hand) : called[p] \/ all_in[p])

\* C3 (amended): in every state of a started hand round_finished is true
\* whenever every non-folded player has called or is all-in, and it is true
\* otherwise only in a round that next_round skipped: at most one non-folded
\* player is not all-in, nobody has called, nothing is bet.
C3_FinishedIffAllCalledOrSkipped ==
    started =>
        /\ (\A p \in NotFolded(Hand) : called[p] \/ all_in[p]) => round_finished
        /\ round_finished =>
              \/ \A p \in NotFolded(Hand) : called[p] \/ all_in[p]
              \/ /\ Cardinality(CanAct(Hand)) <= 1
                 /\ \A p \in Seats(Hand) : ~called[p] /\ bet[p] = 0
                 /\ bet_amount = 0
                 /\ community_cards >= 3

C3_Witness ==
    /\ round_finished
    /\ winners = {}
    /\ Cardinality(CanAct(Hand)) = 1
    /\ \E p \in CanAct(Hand) : ~called[p]
    /\ last.op = "next_round"

NotFoldedNext == {p \in Seats(Hand) : ~folded'[p]}

NotAccepted == {<<>>, <<ROUND_ALREADY_ENDED>>, <<DEAL_ALREADY_ENDED>>,
                <<LESS_THAN_MIN_BET>>, <<LESS_THAN_MIN_RAISE>>}

C6_FoldToOneResolvesHand ==
    [][/\ (/\ AcceptsAction
           /\ last'.op = "action" /\ last'.action_type = FOLD
           /\ last'.result = <<SUCCESS>>
           /\ Cardinality(NotFoldedNext) = 1) =>
            /\ winners' = NotFoldedNext
            /\ \A w \in NotFoldedNext : money'[w] = money[w] + pot
            /\ \A p \in Seats(Hand) \ NotFoldedNext : money'[p] = money[p]
            /\ community_cards' = community_cards
       /\ (winners # {} /\ Cardinality(NotFolded(Hand)) = 1) =>
            /\ community_cards' = community_cards
            /\ UNCHANGED <<winners, money, pot>>
            /\ last'.op = "action" =>
                  last'.result \in {<<>>, <<ROUND_ALREADY_ENDED>>, <<DEAL_ALREADY_ENDED>>}
            /\ events' = <<>>
      ]_vars

C6_Witness ==
    /\ last.op = "action" /\ last.action_type = FOLD
    /\ last.result = <<SUCCESS>>
    /\ Cardinality(NotFolded(Hand)) = 1
    /\ winners = NotFolded(Hand)
    /\ community_cards >= 3
    /\ pot > 0

(***************************************************************************)
(* C7 (as stated): a Bet/Raise whose requested amount exceeds the raiser's *)
(* stack plus the chips the raiser has committed in the round is accepted  *)
(* and capped: the raiser pays the whole stack, is all-in, and the         *)
(* bet-to-call becomes the capped amount.                                  *)
(***************************************************************************)
RaiseIsCapped ==
    /\ last'.result = <<SUCCESS>>
    /\ money'[current_turn] = 0
    /\ all_in'[current_turn]
    /\ bet'[current_turn] = money[current_turn] + bet[current_turn]
    /\ bet_amount' = money[current_turn] + bet[current_turn]
    /\ pot' = pot + money[current_turn]

C7_OverStackRaiseAcceptedAndCapped ==
    [][\A a \in RaiseAmounts :
          (/\ AcceptsAction
           /\ DealAction(RAISE, a)
           /\ a > money[current_turn] + bet[current_turn]) => RaiseIsCapped
      ]_vars

\* C7 (amended): a Bet/Raise that passes the size checks (its amount is at
\* least twice the game's minimum bet and strictly greater than the
\* bet-to-call) and whose requested amount exceeds the raiser's stack plus
\* the chips the raiser has committed in the round is accepted and capped:
\* the raiser pays the whole stack, is all-in, and the bet-to-call becomes
\* the capped amount.
C7_LegalOverStackRaiseCapped ==
    [][\A a \in RaiseAmounts :
          (/\ AcceptsAction
           /\ DealAction(RAISE, a)
           /\ a >= 2 * min_bet /\ a > bet_amount
           /\ a > money[current_turn] + bet[current_turn]) => RaiseIsCapped
      ]_vars

C7_Witness ==
    /\ last.op = "action" /\ last.action_type = RAISE
    /\ last.result = <<SUCCESS>>
    /\ last.new_amount > bet_amount
    /\ \E p \in Seats(Hand) :
          all_in[p] /\ money[p] = 0 /\ bet[p] = bet_amount /\ ~folded[p]
                    /\ last_action[p] = "all-in" /\ called[p]

(***************************************************************************)
(* C8: a Check/Call of the current player pays the difference between the  *)
(* bet-to-call and the chips the player has committed in the round when    *)
(* the stack covers it; when the difference is at least the stack the      *)
(* player pays the whole stack and becomes all-in; what leaves the stack   *)
(* enters the pot and the bet-to-call is unchanged.                        *)
(***************************************************************************)
C8_CallPaysDifferenceOrStack ==
    [][(AcceptsAction /\ DealAction(CALL, 0)) =>
          LET p == current_turn
              difference == bet_amount - bet[p]
              short == difference >= money[p]
              paid == IF short THEN money[p] ELSE difference
          IN  /\ last'.result = <<SUCCESS>>
              /\ money'[p] = money[p] - paid
              /\ pot' = pot + paid
              /\ all_in'[p] = short
              /\ called'[p]
              /\ bet_amount' = bet_amount
              /\ \A q \in Seats(Hand) \ {p} : money'[q] = money[q]
      ]_vars

C8_Witness ==
    /\ last.op = "action" /\ last.action_type = CALL
    /\ last.result = <<SUCCESS>>
    /\ \E p \in Seats(Hand) :
          all_in[p] /\ called[p] /\ last_action[p] = "all-in"
                    /\ 0 < bet[p] /\ bet[p] < bet_amount

(***************************************************************************)
(* C9: a voluntary Bet/Raise is rejected with LESS_THAN_MIN_BET when its   *)
(* amount is below two big blinds (four times the configured small blind), *)
(* with LESS_THAN_MIN_RAISE when its amount is not strictly greater than   *)
(* the bet-to-call, and is accepted otherwise, for every configured small  *)
(* blind.                                                                  *)
(***************************************************************************)
C9_RaiseSizeChecks ==
    [][\A a \in RaiseAmounts :
          (AcceptsAction /\ DealAction(RAISE, a)) =>
              last'.result = IF a < 4 * sb_amount THEN <<LESS_THAN_MIN_BET>>
                             ELSE IF a <= bet_amount THEN <<LESS_THAN_MIN_RAISE>>
                             ELSE <<SUCCESS>>
      ]_vars

(***************************************************************************)
(* C10: after start_deal on a hand whose players all hold more than the    *)
(* big blind, the seat after the dealer has paid the small blind, the next *)
(* seat the big blind, neither is marked as having called, the bet-to-call *)
(* is the big blind, the pot is three small blinds and the current turn is *)
(* the seat after the big blind.                                           *)
(***************************************************************************)
C10_BlindsPosted ==
    (last.op = "start_deal" /\ \A p \in Seats(Hand) : start_money[p] > 2 * sb_amount) =>
        LET n == NumPlayers(Hand)
            sb == (dealer + 1) % n
            bb == (dealer + 2) % n
        IN  /\ blinds = <<sb, bb>>
            /\ money[sb] = start_money[sb] - sb_amount
            /\ bet[sb] = sb_amount
            /\ money[bb] = start_money[bb] - 2 * sb_amount
            /\ bet[bb] = 2 * sb_amount
            /\ \A p \in Seats(Hand) \ {sb, bb} : money[p] = start_money[p]
            /\ ~called[sb] /\ ~called[bb]
            /\ \A p \in Seats(Hand) : ~all_in[p] /\ ~folded[p]
            /\ bet_amount = 2 * sb_amount
            /\ pot = 3 * sb_amount
            /\ current_turn = (dealer + 3) % n
            /\ ~round_finished

C10_Witness ==
    /\ last.op = "start_deal"
    /\ \A p \in Seats(Hand) : start_money[p] > 2 * sb_amount
    /\ pot = 3 * sb_amount

\* The seats that posted the small and the big blind.
SmallBlind == blinds[1]
BigBlind == blinds[2]

\* The step is an accepted Check/Call.
CallAccepted ==
    /\ last'.op = "action" /\ last'.action_type = CALL
    /\ last'.result = <<SUCCESS>>

\* Before the flop, the small blind has been completed and the big blind
\* has not acted yet.
PreflopCompleted ==
    /\ started
    /\ community_cards = 0 /\ ~round_finished /\ winners = {}
    /\ called[SmallBlind] /\ ~called[BigBlind]
    /\ bet[SmallBlind] = 2 * sb_amount /\ bet[BigBlind] = 2 * sb_amount
    /\ pot = 4 * sb_amount

\* Before the flop, both players have the big blind in and have called.
PreflopChecked ==
    /\ started
    /\ community_cards = 0 /\ round_finished /\ winners = {}
    /\ called[SmallBlind] /\ called[BigBlind]
    /\ pot = 4 * sb_amount

(***************************************************************************)
(* C11 (as stated): with two players of 1000 chips and small blind 25,     *)
(* after the blinds (25 and 50) the call of the small-blind player (25     *)
(* more, 50 in total) finishes the pre-flop round, and the next transition *)
(* deals 3 community cards, the big-blind player not acting again.         *)
(***************************************************************************)
C11_CallFinishesPreflop ==
    [][/\ (last.op = "start_deal" /\ last'.op = "action" /\ last'.action_type = CALL) =>
            /\ last'.result = <<SUCCESS>>
            /\ money'[SmallBlind] = money[SmallBlind] - sb_amount
            /\ bet'[SmallBlind] = 2 * sb_amount
            /\ round_finished'
       /\ (community_cards = 0 /\ round_finished /\ last'.op = "next_round") =>
            community_cards' = 3
      ]_vars

\* C11 (amended): after the blinds (25 and 50) the call of the small-blind
\* player (25 more, 50 in total) does not finish the pre-flop round: the turn
\* passes to the big-blind player; the check of the big-blind player
\* finishes the round, and the next transition deals 3 community cards.
C11_CallThenCheckFinishesPreflop ==
    [][/\ (last.op = "start_deal" /\ last'.op = "action" /\ last'.action_type = CALL) =>
            /\ bet[SmallBlind] = sb_amount /\ bet[BigBlind] = 2 * sb_amount
            /\ last'.result = <<SUCCESS>>
            /\ money'[SmallBlind] = money[SmallBlind] - sb_amount
            /\ bet'[SmallBlind] = 2 * sb_amount
            /\ ~round_finished'
            /\ current_turn' = BigBlind
            /\ PreflopCompleted'
       /\ (PreflopCompleted /\ last'.op = "action" /\ last'.action_type = CALL) =>
            /\ last'.result = <<SUCCESS>>
            /\ UNCHANGED <<money, pot, bet_amount>>
            /\ round_finished'
            /\ PreflopChecked'
       /\ (PreflopChecked /\ last'.op = "action") =>
            /\ last'.result \in {<<>>, <<ROUND_ALREADY_ENDED>>}
            /\ UNCHANGED dealVars
       /\ (PreflopChecked /\ last'.op = "next_round") =>
            /\ community_cards' = 3
            /\ UNCHANGED <<money, pot>>
      ]_vars

C11_Witness ==
    /\ community_cards = 3
    /\ last.op = "next_round"
    /\ pot = 4 * sb_amount
    /\ \A p \in Seats(Hand) : money[p] = StartingChips - 2 * sb_amount
    /\ winners = {}

\* The step is the call of next_round that runs the showdown.
RiverShowdown ==
    /\ winners = {} /\ winners' # {}
    /\ last'.op = "next_round"

\* Nobody has folded and the pot holds the two big blinds only.
CheckedThrough ==
    /\ \A p \in Seats(Hand) : ~folded[p]
    /\ pot = 4 * sb_amount

(***************************************************************************)
(* C12 (as stated): with two players of 1000 chips and small blind 25,     *)
(* when the small blind is completed to 50 and every later round is        *)
(* checked through, the pot at showdown is 100 and the final stacks are    *)
(* 1100 and 900 when one hand ranks higher, 1050 and 1050 on a tie.        *)
(***************************************************************************)
C12_CheckedThroughStacks ==
    [][(RiverShowdown /\ CheckedThrough) =>
          /\ pot' = 100
          /\ \A p \in Seats(Hand) :
                money'[p] = IF winners' = Seats(Hand) THEN 1050
                            ELSE IF p \in winners' THEN 1100 ELSE 900
      ]_vars

\* C12 (amended): in that scenario the pot at showdown is 100 and the
\* final stacks are 1050 (the winner) and 950 when one hand ranks higher,
\* 1000 and 1000 on a tie.
C12_CheckedThroughStacksAmended ==
    [][(RiverShowdown /\ CheckedThrough) =>
          /\ pot = 100 /\ pot' = 100
          /\ community_cards = 5
          /\ \A p \in Seats(Hand) : money[p] = 950
          /\ \A p \in Seats(Hand) :
                money'[p] = IF winners' = Seats(Hand) THEN 1000
                            ELSE IF p \in winners' THEN 1050 ELSE 950
      ]_vars

C12_Witness ==
    /\ last.op = "next_round"
    /\ winners = Seats(Hand)
    /\ pot = 100
    /\ \A p \in Seats(Hand) : ~folded[p] /\ money[p] = 1000

\* What next_round deals on a hand without winners.
CardsDealt == IF community_cards = 0 THEN 3
              ELSE IF community_cards < 5 THEN 1 ELSE 0

(***************************************************************************)
(* C13 (as stated): the number of community cards is 0, 3, 4 or 5 and      *)
(* never decreases; next_round deals 3 cards when none are showing, 1 card *)
(* when 3 or 4 are showing, and when 5 are showing deals none and runs the *)
(* showdown.                                                               *)
(***************************************************************************)
C13_CardsDealtByNextRound ==
    [][/\ community_cards' \in {0, 3, 4, 5}
       /\ community_cards' >= community_cards
       /\ last'.op = "next_round" =>
            /\ community_cards' = community_cards + CardsDealt
            /\ community_cards = 5 => winners' # {}
      ]_vars

\* C13 (amended): the number of community cards is 0, 3, 4 or 5 and never
\* decreases; on a hand without winners next_round deals 3 cards when none
\* are showing, 1 card when 3 or 4 are showing, and when 5 are showing
\* deals none and runs the showdown; on a hand that has winners next_round
\* deals nothing; no other operation deals a card.
C13_CardsDealtWhileNoWinners ==
    [][/\ community_cards' \in {0, 3, 4, 5}
       /\ community_cards' >= community_cards
       /\ (last'.op = "next_round" /\ winners = {}) =>
            /\ community_cards' = community_cards + CardsDealt
            /\ community_cards = 5 => winners' # {}
            /\ community_cards < 5 => winners' = {}
       /\ (last'.op = "next_round" /\ winners # {}) =>
            community_cards' = community_cards
       /\ last'.op # "next_round" => community_cards' = community_cards
      ]_vars

C13_Witness ==
    /\ community_cards = 5
    /\ last.op = "next_round"
    /\ winners # {}
    /\ Cardinality(NotFolded(Hand)) >= 2

\* The last event the step broadcast.
LastEvent == events'[Len(events')]

\* The round has been skipped: it is marked finished and nobody has called.
Skipped ==
    /\ started /\ winners = {}
    /\ round_finished
    /\ \A p \in Seats(Hand) : ~called[p]

\* The step is a round transition after which at most one non-folded player
\* is not all-in.
OneLeftToAct ==
    /\ winners = {} /\ winners' = {}
    /\ last'.op = "next_round"
    /\ Cardinality({p \in Seats(Hand) : ~folded'[p] /\ ~all_in'[p]}) <= 1

(***************************************************************************)
(* C14: if at a round transition at most one non-folded player is not      *)
(* all-in, then for the rest of the hand every transition is signalled     *)
(* with SKIP_ROUND (never NEW_ROUND) with no next player, every action is  *)
(* rejected, and repeated calls of next_round deal the remaining community *)
(* cards and reach the showdown: each call deals the round's cards, and    *)
(* the call made with 5 cards showing runs the showdown.                   *)
(***************************************************************************)
C14_SkipsToShowdown ==
    [][/\ OneLeftToAct =>
             /\ Skipped'
             /\ LastEvent.code = SKIP_ROUND /\ LastEvent.next_player = -1
       /\ Skipped =>
             /\ Cardinality(CanAct(Hand)) <= 1
             /\ last'.op = "action" =>
                   /\ last'.result \in {<<>>, <<ROUND_ALREADY_ENDED>>}
                   /\ UNCHANGED dealVars
                   /\ events' = <<>>
             /\ last'.op = "next_round" =>
                   /\ community_cards' = community_cards + CardsDealt
                   /\ LastEvent.code = SKIP_ROUND /\ LastEvent.next_player = -1
                   /\ \A i \in 1 .. Len(events') : events'[i].code # NEW_ROUND
                   /\ UNCHANGED <<folded, all_in>>
                   /\ IF community_cards = 5 THEN winners' # {} ELSE Skipped'
      ]_vars

C14_Witness ==
    /\ last.op = "next_round"
    /\ winners # {}
    /\ Len(events) = 2 /\ events[2].code = SKIP_ROUND
    /\ Cardinality(CanAct(Hand)) = 1
    /\ Cardinality(NotFolded(Hand)) >= 2

\* The step ends the hand: it determines the winners.
HandEnds == winners = {} /\ winners' # {}

\* The non-folded players whose score is maximal among the non-folded
\* players, after the step.
BestNotFolded ==
    {p \in NotFoldedNext :
        \A q \in NotFoldedNext : overall_score'[q] <= overall_score'[p]}

(***************************************************************************)
(* C15: at the end of every hand the winners are exactly the non-folded    *)
(* players whose ranking score is maximal among the non-folded players; a  *)
(* folded player is never a winner and never receives chips from the pot;  *)
(* all tied winners receive the same amount.                               *)
(***************************************************************************)
C15_WinnersAreBestNotFolded ==
    [][/\ HandEnds =>
            /\ winners' = BestNotFolded
            /\ \A p \in Seats(Hand) \ NotFoldedNext :
                    p \notin winners' /\ money'[p] = money[p]
            /\ \A p \in Seats(Hand) \ winners' : money'[p] = money[p]
            /\ \A v, w \in winners' :
                    money'[v] - money[v] = money'[w] - money[w]
            /\ \A w \in winners' : money'[w] - money[w] = pot \div Cardinality(winners')
       /\ winners # {} =>
            /\ UNCHANGED <<winners, money, folded>>
            /\ \A p \in winners : ~folded[p]
      ]_vars

C15_Witness ==
    /\ last.op = "next_round"
    /\ community_cards = 5
    /\ Cardinality(winners) = 1
    /\ Cardinality(NotFolded(Hand)) = 2
    /\ \E p \in NotFolded(Hand) \ winners : \A w \in winners :
            overall_score[p] < overall_score[w]

\* What seat p has paid into the pot during the hand.
Contribution(p) == start_money[p] - money[p]

Min(a, b) == IF a <= b THEN a ELSE b

\* The most a player who contributed c can win: c, or the contribution if
\* it is less, from every player (their own chips included).
Covered(c) ==
    SumOver([p \in Seats(Hand) |-> Min(c, Contribution(p))], Seats(Hand))

(***************************************************************************)
(* C16: at showdown the pot is partitioned into main and side pots by      *)
(* all-in tiers: a player who went all-in having contributed c chips wins  *)
(* from each other player at most min(c, that player's contribution).      *)
(***************************************************************************)
C16_AllInWinsAtMostCovered ==
    [][RiverShowdown =>
          \A w \in winners' :
              all_in[w] => money'[w] - money[w] <= Covered(Contribution(w))
      ]_vars


(***************************************************************************)
(* C17: new_deal removes every player whose stack is 0 or less before      *)
(* dealing, so no hand contains a player who starts it with an empty       *)
(* stack; it creates a hand exactly when at least 2 players remain; with   *)
(* fewer than 2 remaining players, none included, it reports failure       *)
(* without raising and without creating a hand.                            *)
(***************************************************************************)
NewDealReturned == last'.op = "new_deal"

C17_NewDealRemovesBankruptOrFails ==
    [][NewDealReturned =>
        /\ last'.result # <<RAISED>>
        /\ \A i \in 1 .. Len(players') : money'[players'[i]] > 0
        /\ has_deal' <=> Len(Remaining(Hand, players)) >= 2
        /\ has_deal' <=> last'.result = <<NEW_DEAL_STARTED>>
        /\ ~has_deal' => last'.result = <<NEW_DEAL_NOT_STARTED>>]_vars

(***************************************************************************)
(* C18: a join by a client whose name is in use by a connected participant *)
(* of the room (seated, queued to join or spectating) is rejected with the *)
(* name-taken error and leaves the room unchanged, so that no two          *)
(* connected participants of a room ever have the same name.               *)
(***************************************************************************)
Participants == Range(players) \cup Range(joining_queue) \cup Range(spectators)

Connected == Participants \cap client

NameInUse(c) == \E x \in Connected : name(x) = name(c)

C18_DuplicateNameRejected ==
    /\ \A c \in Clients \ current_room :
          NameInUse(c) =>
              LET j == join(room, players, Hand, c)
              IN  /\ j.result = "name already taken"
                  /\ j.players = players
                  /\ j.room = [room EXCEPT !.packets = {}]
    /\ \A x \in Connected : \A y \in Connected : x # y => name(x) # name(y)

(***************************************************************************)
(* C19: a join while a hand is in progress only appends the joiner to the  *)
(* joining queue: the seated players and the hand are unchanged, no seated *)
(* player receives an event, and the joiner alone is sent JOIN_MID_GAME if *)
(* the hand has no winners yet and RESET_PLAYERS if it has ended.          *)
(***************************************************************************)
\* The join of c has been accepted: its HandlerPlayer has got its client.
JoinAccepted(c) == c \notin client /\ c \in client'

C19_JoinMidHandOnlyQueues ==
    [][\A c \in Clients :
          game_in_progress /\ JoinAccepted(c) =>
              /\ joining_queue' = Append(joining_queue, c)
              /\ players' = players
              /\ deal' = deal
              /\ started' = started
              /\ UNCHANGED <<dealer, sb_amount, min_bet, has_deal>>
              /\ spectators' = spectators
              /\ timers' = timers
              /\ packets' = {<<c, IF winners = {} THEN JOIN_MID_GAME
                                                   ELSE RESET_PLAYERS>>}
      ]_vars

\* A client has joined in the middle of a round of betting.
C19_Witness ==
    /\ game_in_progress /\ started /\ winners = {} /\ ~round_finished
    /\ pot > 0
    /\ joining_queue # <<>>
    /\ packets = {<<joining_queue[Len(joining_queue)], JOIN_MID_GAME>>}

(***************************************************************************)
(* C20: if a seated player leaves or disconnects while a hand is in        *)
(* progress, a Fold is submitted on their behalf as soon as the turn is    *)
(* theirs (at once if it already is, otherwise when an event names them as *)
(* the next player), so the hand never waits indefinitely for an action of *)
(* a disconnected player.                                                  *)
(***************************************************************************)
\* The hand waits for an action of the player x.
WaitsFor(x) ==
    /\ game_in_progress /\ started
    /\ winners = {} /\ ~round_finished
    /\ CurrentPlayer(Hand, players) = x

Disconnected == Range(players) \ client

Seat(x) == player_number[x]

\* The player x leaves the room.
Leaves(x) == x \in client /\ x \notin client'

C21_SeatedWithinCapacity == Len(players) <= max_players

\* The connected players of the game, spectators and queued joiners of a room.
Audience(r, ps) == (Range(ps) \cup NonParticipants(r)) \cap r.client

(***************************************************************************)
(* C22: every event the hand or the room broadcasts is delivered, without  *)
(* an error, to every connected player of the game, every spectator and    *)
(* every queued joiner, also to the joiners that are still queued when a   *)
(* hand starts.  (The event join sends to the joiner it has queued is not  *)
(* a broadcast.)                                                           *)
(***************************************************************************)
C22_EventsReachEveryParticipant ==
    [][/\ ~room'.error
       /\ (\A c \in Clients : ~(JoinAccepted(c) /\ game_in_progress))
              => \A pk \in packets' : \A x \in Audience(room', players') :
                    <<x, pk[2]>> \in packets']_vars
\* The cards a packet holds.
CardsOf(pk) ==
    Range(pk.content.client_pocket_cards) \cup Range(pk.content.community_cards)
        \cup UNION {Range(pk.content.pocket_cards[p]) : p \in DOMAIN pk.content.pocket_cards}

\* The pocket cards of the player of the connection x, if it has one.
OwnCards(t, x) == IF x \in TableSeats THEN Range(t.pocket_cards[x]) ELSE {}

PacketsTo(t, x) == {pk \in t.sent : pk.to = x}

\* The two runs differ at most in the pocket cards of the players other than
\* that of x and in the cards still in the deck.
SameView(x) ==
    /\ x \in TableSeats => table.a.pocket_cards[x] = table.b.pocket_cards[x]
    /\ table.a.community_cards = table.b.community_cards

MissingSync ==
    /\ replica # <<>>
    /\ replica.game_event_queue # <<>>
    /\ Head(replica.game_event_queue).type = "GameEvent"
    /\ Head(replica.game_event_queue).event.code \in GAME_SYNC

(***************************************************************************)
(* C24: when the client handles an event whose code needs sync data and    *)
(* none comes with it, the handling fails with an error, the replica is    *)
(* left as it was and the event is not passed to the event receiver.       *)
(***************************************************************************)
C24_MissingSyncFailsFirst ==
    [][MissingSync =>
          /\ replica'.error = "ValueError"
          /\ replica'.game = replica.game
          /\ ~replica'.forwarded
          /\ replica'.game_event_queue = Tail(replica.game_event_queue)]_vars

C24_Witness ==
    /\ replica # <<>>
    /\ replica.error = "ValueError" /\ ~replica.forwarded
    /\ replica.game.community_cards = 3
    /\ replica.game.pot > 0
\* The public state of a hand: chips, blinds, community cards, pot,
\* bet-to-call, current turn and, for each player, the folded and all-in
\* flags, the chips committed in the round and the last action.
Public(h) ==
    [money |-> h.money, blinds |-> h.blinds, community_cards |-> h.community_cards,
     pot |-> h.pot, bet_amount |-> h.bet_amount,
     current_turn |-> Index(h, h.current_turn),
     folded |-> h.folded, all_in |-> h.all_in, bet |-> h.bet,
     last_action |-> h.last_action]

\* The client joined during the hand and has handled every event sent to it.
Caught_up ==
    /\ replica # <<>>
    /\ replica.joined
    /\ replica.game_event_queue = <<>>
    /\ winners = {}

(***************************************************************************)
(* C28: a client that joins while a hand is played and handles the         *)
(* JOIN_MID_GAME sync data and the events that follow holds a replica      *)
(* whose public state is that of the hand of the server, which is what a   *)
(* client that was there since the hand started holds.                     *)
(***************************************************************************)
C28_JoinerSeesPublicState == Caught_up => Public(replica.game) = Public(Hand)
\* The coroutines that have sent their request and wait for the response.
Awaiting == {c \in Coroutines : comms.at[c] = "sent"}

(***************************************************************************)
(* C25: for any interleaving of send_request coroutines started together,  *)
(* the requests are on the wire in the order in which the coroutines were  *)
(* started, at most one request waits for its response at a time, and a    *)
(* coroutine returns the response the server made for its own request.     *)
(***************************************************************************)
C25_RequestsInOrderOneAtATime ==
    comms # <<>> =>
        /\ comms.wire = SubSeq(comms.started, 1, Len(comms.wire))
        /\ Cardinality(Awaiting) <= 1
        /\ \A c \in Coroutines :
              comms.at[c] = "returned" => comms.returned[c] = Response(c)

(***************************************************************************)
(* C26: a send_request that gets no response is given up after a bounded   *)
(* time: no coroutine is still waiting for its response once its wait_time *)
(* has passed the timeout (it has raised the timeout error and taken its   *)
(* time off the request queue).                                            *)
(***************************************************************************)
C26_SilenceTimesOut ==
    comms # <<>> =>
        \A c \in Awaiting : comms.wait_time[c] <= response_timeout
\* A room code of exactly 4 upper-case characters.
WellFormed(room_code) ==
    Len(room_code) = 4 /\ \A i \in 1 .. 4 : room_code[i] \in UpperCase

\* The room, its players and its members, the packets of the step apart.
Membership == <<players, [room EXCEPT !.packets = {}]>>

(***************************************************************************)
(* C27: a join request with a room code that is not exactly 4 upper-case   *)
(* characters is answered with the invalid-format error, one with a        *)
(* well-formed code of no room with room-not-found, one from a client      *)
(* that is in a room with already-in-a-room; every join answered with an   *)
(* error leaves the members of the room and the room as they were.         *)
(***************************************************************************)
C27_JoinErrors ==
    [][\A c \in Clients : \A room_code \in RoomCodes :
          JoinRequest(c, room_code) =>
              /\ ~WellFormed(room_code) =>
                    last'.response = "ERROR failed to join room: invalid room code"
              /\ WellFormed(room_code) /\ room_code \notin rooms =>
                    last'.response = "ERROR failed to join room: room does not exist"
              /\ WellFormed(room_code) /\ room_code \in rooms /\ c \in current_room =>
                    last'.response = "ERROR failed to join room: client is already in another room"
              /\ last'.response # "SUCCESS" => Membership' = Membership]_vars
\* The category of 5 cards by the rules of poker.
Category(five) ==
    LET ranks == RanksOf(five)
        count(n) == {r \in ranks : rank_count(five, r) = n}
        flush == Cardinality({c.suit : c \in five}) = 1
        straight == /\ Cardinality(ranks) = 5
                    /\ \/ \E low \in 2 .. 10 : ranks = low .. low + 4
                       \/ ranks = {14, 2, 3, 4, 5}
    IN  CASE straight /\ flush /\ ranks = 10 .. 14 -> ROYAL_FLUSH
          [] straight /\ flush /\ ranks # 10 .. 14 -> STRAIGHT_FLUSH
          [] ~(straight /\ flush) /\ count(4) # {} -> QUAD
          [] ~(straight /\ flush) /\ count(3) # {} /\ count(2) # {} -> FULL_HOUSE
          [] ~straight /\ flush -> FLUSH
          [] straight /\ ~flush -> STRAIGHT
          [] ~straight /\ ~flush /\ count(3) # {} /\ count(2) = {} /\ count(4) = {} -> TRIPLE
          [] ~straight /\ ~flush /\ Cardinality(count(2)) = 2 -> TWO_PAIR
          [] ~straight /\ ~flush /\ Cardinality(count(2)) = 1 /\ count(3) = {} -> PAIR
          [] OTHER -> HIGH_CARD

\* The best category of the 5-card subsets of the cards.
BruteForce(cards) ==
    LET categories == {Category(five) : five \in {h \in SUBSET cards : Cardinality(h) = 5}}
    IN  CHOOSE best \in categories : \A k \in categories : best <= k

(***************************************************************************)
(* C29: for every set of 5, 6 or 7 distinct cards, the ranking type that   *)
(* HandRanking computes is the best category of the 5-card subsets of the  *)
(* cards, found by going through all of them.                              *)
(***************************************************************************)
C29_RankingIsBestOfFive ==
    (hand_ranking # <<>> /\ hand_ranking.ranking_type # 0) =>
        hand_ranking.ranking_type = BruteForce(hand_ranking.cards)
(***************************************************************************)
(* C30: whatever packets are sent on a connection and however the bytes    *)
(* are cut into reads, the receive_packet calls return those packets in    *)
(* order, and None only at the end of the stream after the last of them.   *)
(***************************************************************************)
C30_FramesRoundTrip ==
    stream # <<>> =>
        \A i \in 1 .. Len(stream.received) :
            \/ i <= Len(stream.sent) /\ stream.received[i] = Returns(stream.sent[i])
            \/ /\ stream.received[i] = None
               /\ i = Len(stream.sent) + 1
               /\ stream.closed
(***************************************************************************)
(* C31: a GAME_ACTION packet from the connection whose player has the      *)
(* turn of the hand of its room is applied to the hand as that player's    *)
(* action and the events of the action are broadcast to the room; a        *)
(* GAME_ACTION packet from any other connection changes nothing.           *)
(***************************************************************************)
C31_GameActionApplied ==
    [][\A c \in Clients : \A t \in ActionTypes : \A a \in RoomAmounts(t) :
          HandleGameAction(c, t, a) =>
              IF /\ started /\ winners = {}
                 /\ c \in Range(players)
                 /\ CurrentPlayer(Hand, players) = c
              THEN LET r == action(Hand, t, a, FALSE)
                   IN  /\ deal' = r.hand
                       /\ room'.packets = broadcast(room, players, r.events).packets
              ELSE /\ deal' = deal
                   /\ room'.packets = {}]_vars
(***************************************************************************)
(* C32: within a betting round the bet-to-call never decreases: after the  *)
(* blinds and after any accepted action (a fold, a call, a raise, a raise  *)
(* capped to the stack of the raiser) it is at least what it was before.   *)
(***************************************************************************)
C32_BetToCallNeverDecreases ==
    [][(\/ last'.op = "start_deal"
        \/ last'.op = "action" /\ last'.result = <<SUCCESS>>) =>
            bet_amount' >= bet_amount]_vars
(***************************************************************************)
(* C33: the DEAL_END event of a hand is broadcast once and is the last     *)
(* event of the hand: in the events of a step no event follows a DEAL_END, *)
(* and a step on a hand that has winners broadcasts no event.              *)
(***************************************************************************)
C33_DealEndOnceAndLast ==
    [][/\ \A i \in 1 .. Len(events') :
             events'[i].code = DEAL_END => i = Len(events')
       /\ winners # {} => events' = <<>>]_vars
\* The event at position i of the events of an accepted action names the
\* seat that acted and, by its code, the seat to act next.
NamesActorAndNext(i) ==
    /\ events'[i].prev_player = current_turn
    /\ events'[i].code = ANY_ACTION => events'[i].next_player = current_turn'
    /\ events'[i].code = ROUND_FINISH => events'[i].next_player = -1

Variant(h) ==
    IF h.winners # {} THEN 0
    ELSE LET n == NumPlayers(h)
             chips == SumOver(start_money, Seats(h))
             acting == {p \in NotFolded(h) : ~h.all_in[p]}
             open == IF h.round_finished THEN 0 ELSE 1
         IN  1 + Cardinality({p \in acting : ~h.called[p]})
               + (n + 1) * ((chips - h.bet_amount)
               + (chips + 1) * (Cardinality(acting)
               + (n + 1) * (open + 2 * (5 - h.community_cards))))

(***************************************************************************)
(* C36: every hand terminates.  While a started hand has no winners the    *)
(* player to act can always submit an accepted action (a Check/Call), and  *)
(* every accepted action and every next_round of a finished round brings   *)
(* the hand strictly closer to its end: a natural number of the hand gets  *)
(* smaller at each of these calls, so no betting round admits an infinite  *)
(* sequence of accepted actions and winners are determined after finitely  *)
(* many steps.                                                             *)
(***************************************************************************)
C36_HandTerminates ==
    started =>
        /\ Variant(Hand) >= 0
        /\ AcceptsAction =>
              /\ action(Hand, CALL, 0, FALSE).result = SUCCESS
              /\ \A t \in ActionTypes : \A a \in Amounts(t) :
                    LET r == action(Hand, t, a, FALSE)
                    IN  r.result = SUCCESS => Variant(r.hand) < Variant(Hand)
        /\ (round_finished /\ winners = {}) =>
              \A new_scores \in Scores(Hand) :
                  Variant(next_round(Hand, new_scores).hand) < Variant(Hand)

C36_Witness ==
    /\ winners # {}
    /\ community_cards = 5
    /\ last.op = "next_round"
    /\ \E p \in Seats(Hand) : ~folded[p] /\ ~all_in[p]

\* The player of the roster ps that is seated first after index d, going
\* round the table, among those that hold chips.
FirstAfter(h, ps, d) ==
    LET n == Len(ps)
        at(j) == ps[((d + j) % n) + 1]
        j0 == CHOOSE j \in 1 .. n :
                 /\ h.money[at(j)] > 0
                 /\ \A i \in 1 .. j - 1 : h.money[at(i)] = 0
    IN  at(j0)

\* C37: after new_deal with cycle_dealer=True the dealer is a valid index of
\* the roster that is left, and the player at that index is the first player
\* with chips seated after the dealer of the previous hand.
C37_DealerIsNextRemaining ==
    [][(NewDealCall(TRUE) /\ last'.result # <<RAISED>>) =>
          LET remaining == Remaining(Hand, players)
          IN  /\ dealer' \in 0 .. Len(remaining) - 1
              /\ remaining[dealer' + 1] = FirstAfter(Hand, players, dealer)]_vars

\* The places a card of the hand t can be at.
Places(t) ==
    {[at |-> "pocket", seat |-> p, i |-> i] :
        p \in DOMAIN t.pocket_cards, i \in 1 .. DeckSize}
    \cup {[at |-> a, seat |-> -1, i |-> i] :
        a \in {"board", "deck"}, i \in 1 .. DeckSize}

Holds(t, pl) ==
    LET cards == IF pl.at = "pocket" THEN t.pocket_cards[pl.seat]
                 ELSE IF pl.at = "board" THEN t.community_cards ELSE t.deck
    IN  IF pl.i \in DOMAIN cards THEN {cards[pl.i]} ELSE {}

\* C38: in every state of a hand each player holds 2 cards, and the pocket
\* cards, the community cards and the deck hold every one of the 52 cards
\* at exactly one place.
C38_CardsPartitionDeck ==
    /\ \A p \in DOMAIN table.pocket_cards : Len(table.pocket_cards[p]) = 2
    /\ \A c \in 1 .. DeckSize :
          Cardinality({pl \in Places(table) : c \in Holds(table, pl)}) = 1
    /\ \A pl \in Places(table) : Holds(table, pl) \subseteq 1 .. DeckSize

\* The stack of seat p is reduced to 0 by the step.
StackEmptied(p) == money[p] > 0 /\ money'[p] = 0

\* C40: in every state of a hand the stacks, the chips committed in the
\* round and the pot are at least 0, and no player is flagged all-in before
\* the hand starts; a step flags a player all-in exactly when it reduces the
\* stack of that player to 0, which only the blinds of start_deal and an
\* action of the player whose turn it is do, and the flag is never taken back.
C40_ChipsNonNegativeAllInAtZero ==
    /\ [](/\ \A p \in Seats(Hand) : money[p] >= 0 /\ bet[p] >= 0
          /\ pot >= 0
          /\ ~started => \A p \in Seats(Hand) : ~all_in[p])
    /\ [][\A p \in Seats(Hand) :
            /\ (all_in'[p] # all_in[p]) <=> StackEmptied(p)
            /\ all_in[p] => all_in'[p]
            /\ StackEmptied(p) =>
                  \/ last'.op = "start_deal" /\ p \in {blinds'[i] : i \in DOMAIN blinds'}
                  \/ last'.op = "action" /\ Index(Hand, current_turn) = p]_vars

C40_Witness ==
    /\ last.op = "action" /\ last.result = <<SUCCESS>>
    /\ \E p \in Seats(Hand) : all_in[p] /\ money[p] = 0 /\ start_money[p] > 0
    /\ \E p \in Seats(Hand) : ~all_in[p] /\ money[p] > 0 /\ bet[p] > 0

\* C35: once every call of join and leave has completed, the player number
\* of every player of the room is its index in the players list.
C35_SeatNumbersAreIndices ==
    (\A c \in Threads : handlers.at[c] \in {"idle", "in room", "left"}) =>
        \A k \in 1 .. Len(handlers.players) :
            handlers.player_number[handlers.players[k]] = k - 1

\* The frame of a packet: the four bytes of its length, then its pickle.
Frame(packet) == struct_pack(Len(pickle_dumps(packet))) \o pickle_dumps(packet)

\* The bytes b are on the wire, one next to the other.
Carries(wire, b) ==
    \E k \in 0 .. Len(wire) - Len(b) : SubSeq(wire, k + 1, k + Len(b)) = b

\* C39: for every event with a code that needs sync data that
\* send_game_event has sent, the byte stream of the connection carries the
\* whole GAME_DATA frame with the whole GAME_EVENT frame right after it.
C39_DataFrameThenEventFrame ==
    \A i \in DOMAIN stream.sent :
        stream.sent[i] \in GAME_SYNC =>
            Carries(stream.wire, Frame(GameDataPacket(stream.sent[i]))
                                    \o Frame(GameEventPacket(stream.sent[i])))
====
